---- MODULE Spec2Model ----
(***************************************************************************)
(* Model of the lunarvoyer simulation core: the propulsion model           *)
(* (lib/spacecraft.ts), the hazard engine (lib/hazards.ts), the orbital    *)
(* mechanics (lib/orbitalMechanics.ts) and the snapshot container          *)
(* (lib/stores/useSpaceGame.tsx) with the two components that drive it     *)
(* (components/SpaceGame.tsx, components/SpacecraftControls.tsx).          *)
(*                                                                         *)
(* Numbers.  A JavaScript number is an IEEE-754 double.  It is modelled    *)
(* in two ways, chosen per quantity:                                       *)
(*   - quantities the code only adds, subtracts and compares (mass, fuel,  *)
(*     hazard clocks and coordinates) are integers in a stated unit, with  *)
(*     PosInf standing for +Infinity;                                      *)
(*   - quantities that go through sqrt/sin/cos/atan2/exp/log or span many  *)
(*     orders of magnitude (position, velocity, orbital elements, mu) are  *)
(*     software floats [m, e] = m * 2^e with a 15-bit mantissa and the     *)
(*     IEEE specials NaN, +Infinity, -Infinity.                            *)
(***************************************************************************)
EXTENDS Integers, Sequences, FiniteSets, TLC

----------------------------------------------------------------------------
(* Software floating point: the arithmetic of a JavaScript number.         *)

MantBits == 14 + 1
MantHi == 2^MantBits
MantLo == 2^(MantBits - 1)
SpecialExp == 2^20

Abs(n) == IF n < 0 THEN -n ELSE n
Sgn(n) == IF n < 0 THEN -1 ELSE IF n > 0 THEN 1 ELSE 0

FZero == [m |-> 0, e |-> 0]
FNaN == [m |-> 0, e |-> SpecialExp]
FInf == [m |-> 1, e |-> SpecialExp]
FNegInf == [m |-> -1, e |-> SpecialExp]

FIsFinite(x) == x.e # SpecialExp
FIsNaN(x) == x.e = SpecialExp /\ x.m = 0
FIsInf(x) == x.e = SpecialExp /\ x.m # 0
FSign(x) == Sgn(x.m)

\* Number of bits of a positive integer below 2^30.
BitLen(a) ==
  IF a < 32768
  THEN IF a < 256
       THEN IF a < 16
            THEN IF a < 4
                 THEN IF a < 2
                      THEN 1
                      ELSE 2
                 ELSE IF a < 8
                      THEN 3
                      ELSE 4
            ELSE IF a < 64
                 THEN IF a < 32
                      THEN 5
                      ELSE 6
                 ELSE IF a < 128
                      THEN 7
                      ELSE 8
       ELSE IF a < 4096
            THEN IF a < 1024
                 THEN IF a < 512
                      THEN 9
                      ELSE 10
                 ELSE IF a < 2048
                      THEN 11
                      ELSE 12
            ELSE IF a < 16384
                 THEN IF a < 8192
                      THEN 13
                      ELSE 14
                 ELSE 15
  ELSE IF a < 8388608
       THEN IF a < 524288
            THEN IF a < 131072
                 THEN IF a < 65536
                      THEN 16
                      ELSE 17
                 ELSE IF a < 262144
                      THEN 18
                      ELSE 19
            ELSE IF a < 2097152
                 THEN IF a < 1048576
                      THEN 20
                      ELSE 21
                 ELSE IF a < 4194304
                      THEN 22
                      ELSE 23
       ELSE IF a < 134217728
            THEN IF a < 33554432
                 THEN IF a < 16777216
                      THEN 24
                      ELSE 25
                 ELSE IF a < 67108864
                      THEN 26
                      ELSE 27
            ELSE IF a < 536870912
                 THEN IF a < 268435456
                      THEN 28
                      ELSE 29
                 ELSE 30

\* The float nearest to m * 2^e (round half away from zero); bl is the number of
\* bits of |m|, q the mantissa after rounding away s bits.
FNormRounded(m, e, s, q) ==
  IF q = MantHi
  THEN [m |-> Sgn(m) * MantLo, e |-> e + s + 1]
  ELSE [m |-> Sgn(m) * q, e |-> e + s]
FNormShifted(m, e, s) == FNormRounded(m, e, s, (Abs(m) + 2^(s - 1)) \div 2^s)
FNormBits(m, e, bl) ==
  IF bl > MantBits
  THEN FNormShifted(m, e, bl - MantBits)
  ELSE [m |-> m * 2^(MantBits - bl), e |-> e - (MantBits - bl)]
FNorm(m, e) == IF m = 0 THEN FZero ELSE FNormBits(m, e, BitLen(Abs(m)))

FInt(n) == FNorm(n, 0)
FNeg(x) == [m |-> -x.m, e |-> x.e]
FAbs(x) == [m |-> Abs(x.m), e |-> x.e]

\* x + y
FAdd(x, y) ==
  IF FIsFinite(x) /\ FIsFinite(y)
  THEN IF x.m = 0 THEN y
       ELSE IF y.m = 0 THEN x
       ELSE LET d == x.e - y.e
            IN IF d > MantBits THEN x
               ELSE IF d < -MantBits THEN y
               ELSE IF d >= 0 THEN FNorm(x.m * 2^d + y.m, y.e)
               ELSE FNorm(x.m + y.m * 2^(-d), x.e)
  ELSE IF FIsNaN(x) \/ FIsNaN(y) THEN FNaN
  ELSE IF FIsInf(x) THEN (IF FIsInf(y) /\ x # y THEN FNaN ELSE x)
  ELSE y

FSub(x, y) == FAdd(x, FNeg(y))

\* x * y
FMul(x, y) ==
  IF FIsFinite(x) /\ FIsFinite(y) THEN FNorm(x.m * y.m, x.e + y.e)
  ELSE IF FIsNaN(x) \/ FIsNaN(y) \/ x.m = 0 \/ y.m = 0 THEN FNaN
  ELSE IF FSign(x) * FSign(y) > 0 THEN FInf ELSE FNegInf

\* x / y
FDiv(x, y) ==
  IF FIsFinite(x) /\ FIsFinite(y)
  THEN IF y.m = 0
       THEN (IF x.m = 0 THEN FNaN ELSE IF x.m > 0 THEN FInf ELSE FNegInf)
       ELSE LET q == (Abs(x.m) * MantHi) \div Abs(y.m)
            IN FNorm(FSign(x) * FSign(y) * q, x.e - y.e - MantBits)
  ELSE IF FIsNaN(x) \/ FIsNaN(y) THEN FNaN
  ELSE IF FIsInf(x)
       THEN (IF FIsInf(y) THEN FNaN
             ELSE IF FSign(x) * (IF y.m < 0 THEN -1 ELSE 1) > 0 THEN FInf ELSE FNegInf)
  ELSE FZero

\* x < y, x <= y, x > y, x >= y: false when either side is NaN
FLt(x, y) ==
  IF FIsFinite(x) /\ FIsFinite(y) THEN FSub(x, y).m < 0
  ELSE ~FIsNaN(x) /\ ~FIsNaN(y) /\ x # y /\ (x = FNegInf \/ y = FInf)
FLe(x, y) == ~FIsNaN(x) /\ ~FIsNaN(y) /\ (x = y \/ FLt(x, y))
FGt(x, y) == FLt(y, x)
FGe(x, y) == FLe(y, x)
\* x === y: false when either side is NaN
FEq(x, y) == ~FIsNaN(x) /\ ~FIsNaN(y) /\ x = y

\* floor(sqrt(n)) for 0 <= n < 2^30
RECURSIVE ISqrtIter(_, _, _)
ISqrtIter(n, lo, hi) ==
  IF hi - lo <= 1 THEN lo
  ELSE LET mid == (lo + hi) \div 2
       IN IF mid * mid <= n THEN ISqrtIter(n, mid, hi) ELSE ISqrtIter(n, lo, mid)
ISqrt(n) == ISqrtIter(n, 0, MantHi + 1)

\* Math.sqrt, correctly rounded: the root of n * 2^(2 * e), s being floor(sqrt(n))
FSqrtRounded(n, s, e) == FNorm(IF n - s * s > s THEN s + 1 ELSE s, e)
FSqrtEven(m2, e2) ==
  FSqrtRounded(m2 * MantLo, ISqrt(m2 * MantLo), (e2 - (MantBits - 1)) \div 2)
FSqrt(x) ==
  IF FIsNaN(x) \/ x.m < 0 THEN FNaN
  ELSE IF x = FInf THEN FInf
  ELSE IF x.m = 0 THEN FZero
  ELSE IF x.e % 2 # 0 THEN FSqrtEven(x.m * 2, x.e - 1)
  ELSE FSqrtEven(x.m, x.e)

\* The float nearest to n / d.
FRat(n, d) == FDiv(FInt(n), FInt(d))

\* Math.max, Math.min of two numbers
FMax(x, y) == IF FIsNaN(x) \/ FIsNaN(y) THEN FNaN ELSE IF FLt(x, y) THEN y ELSE x
FMin(x, y) == IF FIsNaN(x) \/ FIsNaN(y) THEN FNaN ELSE IF FLt(y, x) THEN y ELSE x

\* The integer nearest to a finite float of magnitude below 2^30.
FRound(x) ==
  IF x.e >= 0 THEN x.m * 2^x.e
  ELSE IF -x.e > MantBits THEN 0
  ELSE Sgn(x.m) * ((Abs(x.m) + 2^(-x.e - 1)) \div 2^(-x.e))

FOne == FInt(1)
FTwo == FInt(2)
FPi == FRat(314159265, 100000000)
FTwoPi == FMul(FTwo, FPi)
FHalfPi == FDiv(FPi, FTwo)
FLn2 == FRat(693147181, 1000000000)

\* Coefficients of the series below.
FThird == FRat(1, 3)
FFifth == FRat(1, 5)
FSeventh == FRat(1, 7)
FNinth == FRat(1, 9)
AtanC1 == FRat(9998660, 10000000)
AtanC3 == FRat(-3302995, 10000000)
AtanC5 == FRat(1801410, 10000000)
AtanC7 == FRat(-851330, 10000000)
AtanC9 == FRat(208351, 10000000)

\* x reduced to [-pi, pi] by a whole number of turns
FReduce(x) == FSub(x, FMul(FInt(FRound(FDiv(x, FTwoPi))), FTwoPi))

\* Math.sin: Taylor series on the argument folded into [-pi/2, pi/2]
FSinSeries(f, f2) ==
  LET t4 == FSub(FOne, FDiv(f2, FInt(72)))
      t3 == FSub(FOne, FMul(FDiv(f2, FInt(42)), t4))
      t2 == FSub(FOne, FMul(FDiv(f2, FInt(20)), t3))
      t1 == FSub(FOne, FMul(FDiv(f2, FInt(6)), t2))
  IN FMul(f, t1)
FSinFolded(f) == FSinSeries(f, FMul(f, f))
FSinReduced(r) ==
  FSinFolded(IF FGt(r, FHalfPi) THEN FSub(FPi, r)
             ELSE IF FLt(r, FNeg(FHalfPi)) THEN FSub(FNeg(FPi), r)
             ELSE r)
FSin(x) == IF ~FIsFinite(x) THEN FNaN ELSE FSinReduced(FReduce(x))

\* Math.cos: Taylor series on the argument folded into [-pi/2, pi/2]
FCosSeries(f2) ==
  LET t5 == FSub(FOne, FDiv(f2, FInt(90)))
      t4 == FSub(FOne, FMul(FDiv(f2, FInt(56)), t5))
      t3 == FSub(FOne, FMul(FDiv(f2, FInt(30)), t4))
      t2 == FSub(FOne, FMul(FDiv(f2, FInt(12)), t3))
  IN FSub(FOne, FMul(FDiv(f2, FTwo), t2))
FCosFolded(f) == FCosSeries(FMul(f, f))
FCosReduced(r) ==
  IF FGt(r, FHalfPi) THEN FNeg(FCosFolded(FSub(FPi, r))) ELSE FCosFolded(r)
FCos(x) == IF ~FIsFinite(x) THEN FNaN ELSE FCosReduced(FAbs(FReduce(x)))

\* atan(t) for 0 <= t <= 1 (odd polynomial of degree 9)
FAtanSeries(t, t2) ==
  LET p3 == FAdd(AtanC7, FMul(t2, AtanC9))
      p2 == FAdd(AtanC5, FMul(t2, p3))
      p1 == FAdd(AtanC3, FMul(t2, p2))
      p0 == FAdd(AtanC1, FMul(t2, p1))
  IN FMul(t, p0)
FAtanUnit(t) == FAtanSeries(t, FMul(t, t))

\* Math.atan2(y, x)
\* the angle of (ax, ay) in the first quadrant
FAtan2Acute(ay, ax) ==
  IF FIsInf(ay) /\ FIsInf(ax) THEN FDiv(FPi, FInt(4))
  ELSE IF FGe(ax, ay) THEN FAtanUnit(FDiv(ay, ax))
  ELSE FSub(FHalfPi, FAtanUnit(FDiv(ax, ay)))
\* the angle a of the first quadrant taken to the quadrant of (x, y)
FAtan2Quadrant(y, x, a) ==
  IF y.m < 0
  THEN FNeg(IF x.m < 0 THEN FSub(FPi, a) ELSE a)
  ELSE (IF x.m < 0 THEN FSub(FPi, a) ELSE a)
FAtan2(y, x) ==
  IF FIsNaN(y) \/ FIsNaN(x) THEN FNaN
  ELSE IF y.m = 0 /\ x.m = 0 THEN FZero
  ELSE FAtan2Quadrant(y, x, FAtan2Acute(FAbs(y), FAbs(x)))

\* Math.acos
FAcos(x) == FAtan2(FSqrt(FSub(FOne, FMul(x, x))), x)

\* Math.exp
FExpSeries(r) ==
  LET t6 == FAdd(FOne, FDiv(r, FInt(6)))
      t5 == FAdd(FOne, FMul(FDiv(r, FInt(5)), t6))
      t4 == FAdd(FOne, FMul(FDiv(r, FInt(4)), t5))
      t3 == FAdd(FOne, FMul(FDiv(r, FInt(3)), t4))
      t2 == FAdd(FOne, FMul(FDiv(r, FTwo), t3))
  IN FAdd(FOne, FMul(r, t2))
\* t * 2^k
FScale(t, k) == [m |-> t.m, e |-> t.e + k]
\* exp(x) = 2^k * exp(x - k * ln 2)
FExpScaled(x, k) == FScale(FExpSeries(FSub(x, FMul(FInt(k), FLn2))), k)
FExp(x) ==
  IF FIsNaN(x) THEN FNaN
  ELSE IF x = FInf THEN FInf
  ELSE IF x = FNegInf THEN FZero
  ELSE IF x.m # 0 /\ x.e > 0 THEN (IF x.m > 0 THEN FInf ELSE FZero)
  ELSE FExpScaled(x, FRound(FDiv(x, FLn2)))

\* Math.log
FLogSeries(k, s, s2) ==
  LET t4 == FAdd(FSeventh, FMul(s2, FNinth))
      t3 == FAdd(FFifth, FMul(s2, t4))
      t2 == FAdd(FThird, FMul(s2, t3))
      t1 == FAdd(FOne, FMul(s2, t2))
  IN FAdd(FMul(FInt(k), FLn2), FMul(FTwo, FMul(s, t1)))
FLogRatio(k, s) == FLogSeries(k, s, FMul(s, s))
\* log(f * 2^k) for f in [1, 2)
FLogMantissa(k, f) == FLogRatio(k, FDiv(FSub(f, FOne), FAdd(f, FOne)))
FLog(x) ==
  IF FIsNaN(x) \/ x.m < 0 THEN FNaN
  ELSE IF x = FInf THEN FInf
  ELSE IF x.m = 0 THEN FNegInf
  ELSE FLogMantissa(x.e + MantBits - 1, [m |-> x.m, e |-> 1 - MantBits])

----------------------------------------------------------------------------
(* lib/orbitalMechanics.ts                                                 *)

EARTH_RADIUS == 6371
MU_EARTH == FRat(398600442, 1000)
FSq(x) == FMul(x, x)
\* "const x = value; ...": the value is computed once, before what follows it.
Const(value, Rest(_)) == CHOOSE result \in {Rest(x) : x \in {value}} : TRUE

Vec(x, y, z) == [x |-> x, y |-> y, z |-> z]
\* Math.sqrt(v.x ** 2 + v.y ** 2 + v.z ** 2)
VecNorm(v) == FSqrt(FAdd(FAdd(FSq(v.x), FSq(v.y)), FSq(v.z)))

calculateOrbitalEnergy(velocity, position, mu) ==
  LET v == VecNorm(velocity)
      r == VecNorm(position)
  IN FSub(FDiv(FSq(v), FTwo), FDiv(mu, r))

calculateAngularMomentum(position, velocity) ==
  [x |-> FSub(FMul(position.y, velocity.z), FMul(position.z, velocity.y)),
   y |-> FSub(FMul(position.z, velocity.x), FMul(position.x, velocity.z)),
   z |-> FSub(FMul(position.x, velocity.y), FMul(position.y, velocity.x))]

\* orbitalElementsToCartesian: position and velocity in the orbital plane
OrbitalPlane(a, e, mu, cosNu, sinNu) ==
  LET ome2 == FSub(FOne, FMul(e, e))
      r == FDiv(FMul(a, ome2), FAdd(FOne, FMul(e, cosNu)))
      h == FSqrt(FMul(FMul(mu, a), ome2))
  IN [x_orb |-> FMul(r, cosNu),
      y_orb |-> FMul(r, sinNu),
      vx_orb |-> FMul(FDiv(FNeg(mu), h), sinNu),
      vy_orb |-> FMul(FDiv(mu, h), FAdd(e, cosNu))]

\* orbitalElementsToCartesian: the coefficients of the rotation to the inertial frame
RotationMatrix(cosOmega, sinOmega, cosOmega_l, sinOmega_l, cosI, sinI) ==
  [xx |-> FSub(FMul(cosOmega, cosOmega_l), FMul(FMul(sinOmega, sinOmega_l), cosI)),
   xy |-> FAdd(FMul(cosOmega, sinOmega_l), FMul(FMul(sinOmega, cosOmega_l), cosI)),
   yx |-> FAdd(FMul(sinOmega, cosOmega_l), FMul(FMul(cosOmega, sinOmega_l), cosI)),
   yy |-> FSub(FMul(sinOmega, sinOmega_l), FMul(FMul(cosOmega, cosOmega_l), cosI)),
   zx |-> FMul(sinOmega_l, sinI),
   zy |-> FMul(cosOmega_l, sinI)]

\* orbitalElementsToCartesian: the orbital-plane vectors o rotated by R
ToInertial(o, R) ==
  [position |-> [x |-> FSub(FMul(o.x_orb, R.xx), FMul(o.y_orb, R.xy)),
                 y |-> FSub(FMul(o.x_orb, R.yx), FMul(o.y_orb, R.yy)),
                 z |-> FAdd(FMul(o.x_orb, R.zx), FMul(o.y_orb, R.zy))],
   velocity |-> [x |-> FSub(FMul(o.vx_orb, R.xx), FMul(o.vy_orb, R.xy)),
                 y |-> FSub(FMul(o.vx_orb, R.yx), FMul(o.vy_orb, R.yy)),
                 z |-> FAdd(FMul(o.vx_orb, R.zx), FMul(o.vy_orb, R.zy))]]

orbitalElementsToCartesian(elements, mu) ==
  Const(OrbitalPlane(elements.semiMajorAxis, elements.eccentricity, mu,
                     FCos(elements.trueAnomaly), FSin(elements.trueAnomaly)),
        LAMBDA o :
          Const(RotationMatrix(FCos(elements.longitudeOfAscendingNode),
                               FSin(elements.longitudeOfAscendingNode),
                               FCos(elements.argumentOfPeriapsis),
                               FSin(elements.argumentOfPeriapsis),
                               FCos(elements.inclination),
                               FSin(elements.inclination)),
                LAMBDA R : ToInertial(o, R)))

\* cartesianToOrbitalElements: Omega from the node vector (n_x, n_y) of length n
AscendingNode(n_x, n_y, n) ==
  IF FGt(n, FZero)
  THEN (IF FLt(n_y, FZero)
        THEN FSub(FTwoPi, FAcos(FDiv(n_x, n)))
        ELSE FAcos(FDiv(n_x, n)))
  ELSE FZero

\* cartesianToOrbitalElements: the elements from r, h_vec, h, energy and nu
ElementsOf(r, h_vec, h, energy, nu, mu) ==
  [semiMajorAxis |-> FDiv(FNeg(mu), FMul(FTwo, energy)),
   eccentricity |-> FSqrt(FAdd(FOne, FDiv(FMul(FMul(FTwo, energy), FSq(h)), FSq(mu)))),
   inclination |-> FAcos(FDiv(h_vec.z, h)),
   longitudeOfAscendingNode |->
     AscendingNode(FNeg(h_vec.y), h_vec.x,
                   FSqrt(FAdd(FSq(FNeg(h_vec.y)), FSq(h_vec.x)))),
   argumentOfPeriapsis |-> FZero,
   trueAnomaly |-> nu,
   meanAnomaly |-> nu,
   altitude |-> FSub(r, FInt(EARTH_RADIUS))]

\* cartesianToOrbitalElements: the true anomaly
TrueAnomalyOf(position, velocity, mu, r, v) ==
  FAtan2(FDiv(FAdd(FAdd(FMul(position.x, velocity.x), FMul(position.y, velocity.y)),
                   FMul(position.z, velocity.z)),
              FSqrt(mu)),
         FSub(r, FDiv(mu, FMul(FSq(v), r))))

\* cartesianToOrbitalElements, r and h_vec computed
ElementsAt(position, velocity, mu, r, h_vec) ==
  Const(calculateOrbitalEnergy(velocity, position, mu),
        LAMBDA energy :
          Const(TrueAnomalyOf(position, velocity, mu, r, VecNorm(velocity)),
                LAMBDA nu : ElementsOf(r, h_vec, VecNorm(h_vec), energy, nu, mu)))

cartesianToOrbitalElements(position, velocity, mu) ==
  Const(VecNorm(position),
        LAMBDA r :
          Const(calculateAngularMomentum(position, velocity),
                LAMBDA h_vec : ElementsAt(position, velocity, mu, r, h_vec)))

\* The body of the loop "for (let i = 0; i < 5; i++) E = M + e * sin(E)", k times.
RECURSIVE KeplerIterate(_, _, _, _)
KeplerIterate(E, M, ecc, k) ==
  IF k = 0 THEN E
  ELSE Const(FAdd(M, FMul(ecc, FSin(E))), LAMBDA next : KeplerIterate(next, M, ecc, k - 1))

KEPLER_ITERATIONS == 5
\* The value a caller passes for the optional "moon" parameter when it passes none.
NoMoon == [none |-> TRUE]

\* Math.sqrt(r2) || 1e-6
OrTiny(sq) == IF sq = FZero \/ FIsNaN(sq) THEN FRat(1, 1000000) ELSE sq

\* updateOrbitalMotion, moon given: the position advanced by the perturbed velocity
MoonMoved(cart, velocity, deltaTime) ==
  [position |-> [x |-> FAdd(cart.position.x, FMul(velocity.x, deltaTime)),
                 y |-> FAdd(cart.position.y, FMul(velocity.y, deltaTime)),
                 z |-> FAdd(cart.position.z, FMul(velocity.z, deltaTime))],
   velocity |-> velocity]

\* updateOrbitalMotion, moon given: the velocity with the Moon's acceleration added
MoonKick(cart, d, accelFactor, deltaTime) ==
  MoonMoved(cart,
            [x |-> FAdd(cart.velocity.x, FMul(FMul(accelFactor, d.x), deltaTime)),
             y |-> FAdd(cart.velocity.y, FMul(FMul(accelFactor, d.y), deltaTime)),
             z |-> FAdd(cart.velocity.z, FMul(FMul(accelFactor, d.z), deltaTime))],
            deltaTime)

\* updateOrbitalMotion, moon given: accelFactor = moon.mu / (r2 * r)
MoonPull(cart, moon, d, r2, deltaTime) ==
  MoonKick(cart, d, FDiv(moon.mu, FMul(r2, OrTiny(FSqrt(r2)))), deltaTime)

\* updateOrbitalMotion, moon given: d is the vector from the spacecraft to the Moon
MoonToward(cart, moon, d, deltaTime) ==
  MoonPull(cart, moon, d,
           FAdd(FAdd(FMul(d.x, d.x), FMul(d.y, d.y)), FMul(d.z, d.z)), deltaTime)

MoonPerturbation(cart, moon, deltaTime) ==
  MoonToward(cart, moon,
             [x |-> FSub(moon.position.x, cart.position.x),
              y |-> FSub(moon.position.y, cart.position.y),
              z |-> FSub(moon.position.z, cart.position.z)],
             deltaTime)

\* updateOrbitalMotion: the spacecraft returned
Propagated(spacecraft, newElements, perturbed) ==
  [spacecraft EXCEPT
     !.position = perturbed.position,
     !.velocity = perturbed.velocity,
     !.orbitalElements =
        [newElements EXCEPT !.altitude =
           FSub(VecNorm(perturbed.position), FInt(EARTH_RADIUS))]]

\* Variant: the Moon's pull applied to the Cartesian state the spacecraft came with.
PropagatedFromState(spacecraft, newElements, cart, deltaTime, moon) ==
  Const(IF moon # NoMoon
        THEN MoonPerturbation([position |-> spacecraft.position,
                               velocity |-> spacecraft.velocity], moon, deltaTime)
        ELSE cart,
        LAMBDA perturbed : Propagated(spacecraft, newElements, perturbed))

\* updateOrbitalMotion from the Cartesian state of the new elements on
PropagatedFrom(spacecraft, newElements, cart, deltaTime, moon) ==
  Const(IF moon # NoMoon THEN MoonPerturbation(cart, moon, deltaTime) ELSE cart,
        LAMBDA perturbed : Propagated(spacecraft, newElements, perturbed))

\* updateOrbitalMotion from the new elements on
PropagatedTo(spacecraft, newElements, mu, deltaTime, moon) ==
  Const(orbitalElementsToCartesian(newElements, mu),
        LAMBDA cart : PropagatedFrom(spacecraft, newElements, cart, deltaTime, moon))

\* updateOrbitalMotion: the true anomaly of the eccentric anomaly E
TrueAnomalyAt(E, eccentricity) ==
  FMul(FTwo, FAtan2(FMul(FSqrt(FAdd(FOne, eccentricity)), FSin(FDiv(E, FTwo))),
                    FMul(FSqrt(FSub(FOne, eccentricity)), FCos(FDiv(E, FTwo)))))

\* updateOrbitalMotion from the new mean anomaly on
PropagatedBy(spacecraft, newMeanAnomaly, mu, deltaTime, moon) ==
  Const([spacecraft.orbitalElements EXCEPT
           !.meanAnomaly = newMeanAnomaly,
           !.trueAnomaly =
              TrueAnomalyAt(KeplerIterate(newMeanAnomaly, newMeanAnomaly,
                                          spacecraft.orbitalElements.eccentricity,
                                          KEPLER_ITERATIONS),
                            spacecraft.orbitalElements.eccentricity)],
        LAMBDA newElements : PropagatedTo(spacecraft, newElements, mu, deltaTime, moon))

\* Variant: the mean motion taken from the square of the semi-major axis.
MeanMotionOfSquare(mu, a) == FSqrt(FDiv(mu, FMul(a, a)))

\* Math.sqrt(mu / Math.pow(a, 3))
MeanMotion(mu, a) == FSqrt(FDiv(mu, FMul(FMul(a, a), a)))

updateOrbitalMotion(spacecraft, earth, deltaTime, moon) ==
  Const(FAdd(spacecraft.orbitalElements.meanAnomaly,
             FMul(MeanMotion(earth.mu, spacecraft.orbitalElements.semiMajorAxis),
                  deltaTime)),
        LAMBDA newMeanAnomaly :
          PropagatedBy(spacecraft, newMeanAnomaly, earth.mu, deltaTime, moon))

----------------------------------------------------------------------------
(* lib/spacecraft.ts                                                       *)
(* mass and fuel are integers, in grams (the code's unit is the kilogram); *)
(* delta-v and velocity are floats.                                        *)

\* a mass (grams) as the float of kilograms the rocket equation works on
MassF(n) == FRat(n, 1000)
\* the mass (grams) a float of kilograms stands for
MassOf(x) == FRound(FMul(x, FInt(1000)))

G0 == FRat(981, 100)
SPECIFIC_IMPULSE == 300
M_PER_KM == 1000

calculateDeltaV(initialMass, finalMass, specificImpulse) ==
  LET exhaustVelocity == FMul(specificImpulse, G0)
  IN FMul(exhaustVelocity, FLog(FDiv(initialMass, finalMass)))

calculateFuelConsumption(deltaV, mass, specificImpulse) ==
  LET exhaustVelocity == FMul(specificImpulse, G0)
      massRatio == FExp(FDiv(deltaV, exhaustVelocity))
  IN FDiv(FMul(mass, FSub(massRatio, FOne)), massRatio)

\* spacecraft.velocity + normalizedDirection * dv / 1000, per component
BurnVelocity(velocity, normalizedDirection, dv) ==
  [x |-> FAdd(velocity.x, FDiv(FMul(normalizedDirection.x, dv), FInt(M_PER_KM))),
   y |-> FAdd(velocity.y, FDiv(FMul(normalizedDirection.y, dv), FInt(M_PER_KM))),
   z |-> FAdd(velocity.z, FDiv(FMul(normalizedDirection.z, dv), FInt(M_PER_KM)))]

\* Variant: a full burn that takes the fuel but leaves the mass as it was.
FullBurnKeepingMass(spacecraft, newVelocity, deltaVMagnitude, fuelUsed) ==
  [spacecraft |-> [spacecraft EXCEPT
                     !.velocity = newVelocity,
                     !.fuel = spacecraft.fuel - fuelUsed,
                     !.isBurning = TRUE],
   deltaV |-> deltaVMagnitude,
   fuelUsed |-> fuelUsed]

\* Variant: a limited burn that empties the tank but leaves the mass as it was.
LimitedBurnKeepingMass(spacecraft, newVelocity, availableDeltaV) ==
  [spacecraft |-> [spacecraft EXCEPT
                     !.velocity = newVelocity,
                     !.fuel = 0,
                     !.isBurning = TRUE],
   deltaV |-> availableDeltaV,
   fuelUsed |-> spacecraft.fuel]

\* applyBurn, fuelUsed > spacecraft.fuel: the result for the velocity after the burn.
LimitedBurn(spacecraft, newVelocity, availableDeltaV) ==
  [spacecraft |-> [spacecraft EXCEPT
                     !.velocity = newVelocity,
                     !.mass = spacecraft.mass - spacecraft.fuel,
                     !.fuel = 0,
                     !.orbitalElements =
                        cartesianToOrbitalElements(spacecraft.position, newVelocity, MU_EARTH),
                     !.isBurning = TRUE],
   deltaV |-> availableDeltaV,
   fuelUsed |-> spacecraft.fuel]

\* applyBurn, fuelUsed > spacecraft.fuel: the burn the remaining fuel gives.
LimitedBurnBy(spacecraft, normalizedDirection, availableDeltaV) ==
  Const(BurnVelocity(spacecraft.velocity, normalizedDirection, availableDeltaV),
        LAMBDA newVelocity : LimitedBurn(spacecraft, newVelocity, availableDeltaV))

\* The branch of applyBurn taken when fuelUsed > spacecraft.fuel.
ApplyLimitedBurn(spacecraft, normalizedDirection) ==
  Const(calculateDeltaV(MassF(spacecraft.mass),
                        MassF(spacecraft.mass - spacecraft.fuel),
                        FInt(SPECIFIC_IMPULSE)),
        LAMBDA availableDeltaV :
          LimitedBurnBy(spacecraft, normalizedDirection, availableDeltaV))

\* applyBurn, fuel sufficient: the result for the velocity after the burn.
FullBurn(spacecraft, newVelocity, deltaVMagnitude, fuelUsed) ==
  [spacecraft |-> [spacecraft EXCEPT
                     !.velocity = newVelocity,
                     !.mass = spacecraft.mass - fuelUsed,
                     !.fuel = spacecraft.fuel - fuelUsed,
                     !.orbitalElements =
                        cartesianToOrbitalElements(spacecraft.position, newVelocity, MU_EARTH),
                     !.isBurning = TRUE],
   deltaV |-> deltaVMagnitude,
   fuelUsed |-> fuelUsed]

\* The branch of applyBurn taken when the fuel suffices.
ApplyFullBurn(spacecraft, normalizedDirection, deltaVMagnitude, fuelUsed) ==
  Const(BurnVelocity(spacecraft.velocity, normalizedDirection, deltaVMagnitude),
        LAMBDA newVelocity : FullBurn(spacecraft, newVelocity, deltaVMagnitude, fuelUsed))

\* The fuel (grams) the requested delta-v needs at the spacecraft's mass.
NominalFuel(spacecraft, deltaVMagnitude) ==
  MassOf(calculateFuelConsumption(deltaVMagnitude, MassF(spacecraft.mass),
                                  FInt(SPECIFIC_IMPULSE)))

\* burnDirection / magnitude, per component
Normalized(burnDirection, magnitude) ==
  [x |-> FDiv(burnDirection.x, magnitude),
   y |-> FDiv(burnDirection.y, magnitude),
   z |-> FDiv(burnDirection.z, magnitude)]

\* Variant: the burn without the comparison of fuelUsed with spacecraft.fuel.
BurnUnclamped(spacecraft, normalizedDirection, deltaVMagnitude, fuelUsed) ==
  ApplyFullBurn(spacecraft, normalizedDirection, deltaVMagnitude, fuelUsed)

\* Variant: the burn rejected when the fuel does not suffice.
BurnRejecting(spacecraft, normalizedDirection, deltaVMagnitude, fuelUsed) ==
  IF fuelUsed > spacecraft.fuel
  THEN [spacecraft |-> spacecraft, deltaV |-> FZero, fuelUsed |-> 0]
  ELSE ApplyFullBurn(spacecraft, normalizedDirection, deltaVMagnitude, fuelUsed)

\* applyBurn for a direction that is not zero.
BurnAlong(spacecraft, normalizedDirection, deltaVMagnitude, fuelUsed) ==
  IF fuelUsed > spacecraft.fuel
  THEN ApplyLimitedBurn(spacecraft, normalizedDirection)
  ELSE ApplyFullBurn(spacecraft, normalizedDirection, deltaVMagnitude, fuelUsed)

\* Variant: applyBurn without the test for a zero direction.
BurnOfAnyMagnitude(spacecraft, burnDirection, deltaVMagnitude, magnitude) ==
  Const(NominalFuel(spacecraft, deltaVMagnitude),
        LAMBDA fuelUsed :
          BurnAlong(spacecraft, Normalized(burnDirection, magnitude), deltaVMagnitude,
                    fuelUsed))

\* applyBurn for a direction of the given magnitude.
BurnOfMagnitude(spacecraft, burnDirection, deltaVMagnitude, magnitude) ==
  IF FEq(magnitude, FZero)
  THEN [spacecraft |-> spacecraft, deltaV |-> FZero, fuelUsed |-> 0]
  ELSE Const(NominalFuel(spacecraft, deltaVMagnitude),
             LAMBDA fuelUsed :
               BurnAlong(spacecraft, Normalized(burnDirection, magnitude),
                         deltaVMagnitude, fuelUsed))

applyBurn(spacecraft, burnDirection, deltaVMagnitude) ==
  Const(VecNorm(burnDirection),
        LAMBDA magnitude :
          BurnOfMagnitude(spacecraft, burnDirection, deltaVMagnitude, magnitude))

----------------------------------------------------------------------------
(* lib/hazards.ts                                                          *)
(* Hazard lengths, speeds and the Kp index are integers, in hundredths of   *)
(* the code's unit; hazard clocks are whole seconds, Infinity standing for *)
(* the JavaScript value.                                                   *)

Infinity == 2^30
\* a length (hundredths) as the float the distance arithmetic works on
LenF(n) == FRat(n, 100)
\* t - dt on a hazard clock
TimeSub(t, dt) == IF t = Infinity THEN Infinity ELSE t - dt

\* Math.random() returns a value in [0, 1): modelled in hundredths, 0..99.
\* rnd is the sequence of the values the calls for one hazard return, in call order.
RandomHazard(i, gameTime, rnd) ==
  IF rnd[1] < 50
  THEN [id |-> <<"radiation", gameTime, i>>,
        type |-> "radiation",
        position |-> [x |-> (rnd[2] - 50) * 40 + (IF rnd[3] > 50 THEN 2000 ELSE -2000),
                      y |-> (rnd[4] - 50) * 40,
                      z |-> (rnd[5] - 50) * 40],
        radius |-> 100 + rnd[6] * 3,
        intensity |-> rnd[7],
        duration |-> 60 + rnd[8] * 3,
        timeRemaining |-> 60 + rnd[9] * 3,
        kpIndex |-> 500 + rnd[10] * 4]
  ELSE [id |-> <<"debris", gameTime, i>>,
        type |-> "debris",
        position |-> [x |-> (rnd[2] - 50) * 30 + (IF rnd[3] > 50 THEN 1500 ELSE -1500),
                      y |-> (rnd[4] - 50) * 30,
                      z |-> (rnd[5] - 50) * 30],
        velocity |-> [x |-> (rnd[6] - 50) * 10,
                      y |-> (rnd[7] - 50) * 10,
                      z |-> (rnd[8] - 50) * 10],
        radius |-> 50 + rnd[9] * 2,
        intensity |-> 1,
        duration |-> Infinity,
        timeRemaining |-> Infinity,
        mass |-> 100 + rnd[10] * 100]

\* rnds[i] holds the random values drawn for hazard i - 1.
generateRandomHazards(count, gameTime, rnds) ==
  [i \in 1..count |-> RandomHazard(i - 1, gameTime, rnds[i])]

\* Variant: a hazard whose clock does not run.
UpdateHazardKeepingClock(hazard, deltaTime) ==
  IF hazard.type = "debris" /\ "velocity" \in DOMAIN hazard
  THEN [hazard EXCEPT
          !.position = [x |-> hazard.position.x + hazard.velocity.x * deltaTime,
                        y |-> hazard.position.y + hazard.velocity.y * deltaTime,
                        z |-> hazard.position.z + hazard.velocity.z * deltaTime]]
  ELSE hazard

\* Variant: debris moved by its velocity whatever the elapsed time.
UpdateHazardByVelocity(hazard, deltaTime) ==
  LET newTimeRemaining == TimeSub(hazard.timeRemaining, deltaTime)
  IN IF hazard.type = "debris" /\ "velocity" \in DOMAIN hazard
     THEN [hazard EXCEPT
             !.position = [x |-> hazard.position.x + hazard.velocity.x,
                           y |-> hazard.position.y + hazard.velocity.y,
                           z |-> hazard.position.z + hazard.velocity.z],
             !.timeRemaining = newTimeRemaining]
     ELSE [hazard EXCEPT !.timeRemaining = newTimeRemaining]

\* The callback updateHazards maps over the hazards.
UpdateHazard(hazard, deltaTime) ==
  LET newTimeRemaining == TimeSub(hazard.timeRemaining, deltaTime)
  IN IF hazard.type = "debris" /\ "velocity" \in DOMAIN hazard
     THEN [hazard EXCEPT
             !.position = [x |-> hazard.position.x + hazard.velocity.x * deltaTime,
                           y |-> hazard.position.y + hazard.velocity.y * deltaTime,
                           z |-> hazard.position.z + hazard.velocity.z * deltaTime],
             !.timeRemaining = newTimeRemaining]
     ELSE [hazard EXCEPT !.timeRemaining = newTimeRemaining]

\* Variant: updateHazards that keeps a hazard whose clock reached 0.
updateHazardsKeepingZero(hazards, deltaTime) ==
  SelectSeq([i \in 1..Len(hazards) |-> UpdateHazard(hazards[i], deltaTime)],
            LAMBDA hazard : hazard.timeRemaining >= 0)

updateHazards(hazards, deltaTime) ==
  SelectSeq([i \in 1..Len(hazards) |-> UpdateHazard(hazards[i], deltaTime)],
            LAMBDA hazard : hazard.timeRemaining > 0)

\* Math.sqrt((p.x - q.x) ** 2 + (p.y - q.y) ** 2 + (p.z - q.z) ** 2)
Distance(p, q) ==
  FSqrt(FAdd(FAdd(FSq(FSub(p.x, q.x)), FSq(FSub(p.y, q.y))), FSq(FSub(p.z, q.z))))
\* a hazard's position as the numbers the distance is computed on
HazardPos(hazard) ==
  [x |-> LenF(hazard.position.x), y |-> LenF(hazard.position.y), z |-> LenF(hazard.position.z)]

\* Variant: checkHazardCollision with an exclusive boundary.
checkHazardCollisionStrict(spacecraftPosition, hazards) ==
  SelectSeq(hazards, LAMBDA hazard :
    FLt(Distance(spacecraftPosition, HazardPos(hazard)), LenF(hazard.radius)))

checkHazardCollision(spacecraftPosition, hazards) ==
  SelectSeq(hazards, LAMBDA hazard :
    FLe(Distance(spacecraftPosition, HazardPos(hazard)), LenF(hazard.radius)))

\* The body of the forEach of calculateRadiationDose, from hazard k on.
RECURSIVE DoseFrom(_, _, _, _)
DoseFrom(position, hazards, k, totalDose) ==
  IF k > Len(hazards) THEN totalDose
  ELSE LET hazard == hazards[k]
           distance == Distance(position, HazardPos(hazard))
       IN IF hazard.type = "radiation" /\ FLe(distance, LenF(hazard.radius))
          THEN LET falloff == FMax(FZero, FSub(FOne, FDiv(distance, LenF(hazard.radius))))
               IN DoseFrom(position, hazards, k + 1,
                           FAdd(totalDose, FMul(FInt(hazard.intensity), falloff)))
          ELSE DoseFrom(position, hazards, k + 1, totalDose)

\* Variant: the dose summed over hazards of every kind.
RECURSIVE DoseOfAllKinds(_, _, _, _)
DoseOfAllKinds(position, hazards, k, totalDose) ==
  IF k > Len(hazards) THEN totalDose
  ELSE LET hazard == hazards[k]
           distance == Distance(position, HazardPos(hazard))
       IN IF FLe(distance, LenF(hazard.radius))
          THEN DoseOfAllKinds(position, hazards, k + 1,
                 FAdd(totalDose,
                      FMul(FInt(hazard.intensity),
                           FMax(FZero, FSub(FOne, FDiv(distance, LenF(hazard.radius)))))))
          ELSE DoseOfAllKinds(position, hazards, k + 1, totalDose)
calculateRadiationDoseOfAllKinds(position, hazards) ==
  DoseOfAllKinds(position, hazards, 1, FZero)

calculateRadiationDose(position, hazards) == DoseFrom(position, hazards, 1, FZero)

isGeromagneticStormActive(hazards) ==
  \E k \in 1..Len(hazards) : hazards[k].type = "radiation" /\ hazards[k].kpIndex >= 700

\* Variant: the collision probability without the cap of the speed factor.
calculateCollisionProbabilityUncapped(spacecraftPosition, spacecraftVelocity, debris) ==
  LET dv == [x |-> LenF(debris.velocity.x), y |-> LenF(debris.velocity.y),
             z |-> LenF(debris.velocity.z)]
  IN FMul(FDiv(FOne, FAdd(FOne, Distance(spacecraftPosition, HazardPos(debris)))),
          FDiv(Distance(spacecraftVelocity, dv), FInt(10)))

SPEED_SCALE == 10
calculateCollisionProbability(spacecraftPosition, spacecraftVelocity, debris) ==
  LET dv == IF "velocity" \in DOMAIN debris
            THEN [x |-> LenF(debris.velocity.x), y |-> LenF(debris.velocity.y),
                  z |-> LenF(debris.velocity.z)]
            ELSE Vec(FZero, FZero, FZero)
      relativeSpeed == Distance(spacecraftVelocity, dv)
      distance == Distance(spacecraftPosition, HazardPos(debris))
      baseProbability == FDiv(FOne, FAdd(FOne, distance))
      speedFactor == FMin(FOne, FDiv(relativeSpeed, FInt(SPEED_SCALE)))
  IN FMul(baseProbability, speedFactor)

----------------------------------------------------------------------------
(* lib/stores/useSpaceGame.tsx                                             *)

VISUALIZATION_SCALE == 1000
INITIAL_ALTITUDE_KM == 300
HAZARD_COUNT == 5
earthVisRadius == FDiv(FInt(EARTH_RADIUS), FInt(VISUALIZATION_SCALE))
spacecraftAltitude == FDiv(FInt(INITIAL_ALTITUDE_KM), FInt(VISUALIZATION_SCALE))
ScaleCubed ==
  FMul(FMul(FInt(VISUALIZATION_SCALE), FInt(VISUALIZATION_SCALE)), FInt(VISUALIZATION_SCALE))

initialSpacecraft ==
  [position |-> Vec(FZero, FZero, FAdd(earthVisRadius, spacecraftAltitude)),
   velocity |-> Vec(FRat(39, 10000), FZero, FZero),
   mass |-> 1000 * 1000,
   fuel |-> 500 * 1000,
   maxFuel |-> 500 * 1000,
   maxMass |-> 1000 * 1000,
   orbitalElements |->
     [semiMajorAxis |-> FAdd(earthVisRadius, spacecraftAltitude),
      eccentricity |-> FRat(1, 100),
      inclination |-> FRat(1, 10),
      longitudeOfAscendingNode |-> FZero,
      argumentOfPeriapsis |-> FZero,
      trueAnomaly |-> FZero,
      meanAnomaly |-> FZero,
      altitude |-> FMul(spacecraftAltitude, FInt(VISUALIZATION_SCALE))],
   isBurning |-> FALSE]

initialEarth ==
  [position |-> Vec(FZero, FZero, FZero),
   radius |-> earthVisRadius,
   mu |-> FDiv(MU_EARTH, ScaleCubed)]

initialMoon ==
  [position |-> Vec(FInt(60), FZero, FZero),
   radius |-> FRat(1737, 1000),
   mu |-> FDiv(FRat(49027779, 10000), ScaleCubed)]

----------------------------------------------------------------------------
(* Objects.  The definitions above give the values the functions compute;   *)
(* the definitions below say which objects hold them.  A heap maps the      *)
(* references of one call to objects.  A spacecraft object holds references *)
(* to its position, velocity and orbitalElements objects, a hazard object   *)
(* to its position and velocity objects; an object spread ({...o}) is a new *)
(* object holding the same references.                                      *)

SpacecraftParts == {"position", "velocity", "orbitalElements"}
\* The reference of the object owner names, of a part of it.
Self(owner) == <<owner, "self">>
Part(owner, part) == <<owner, part>>

\* The heap with object written at ref.
Store(heap, ref, object) ==
  [r \in (DOMAIN heap) \cup {ref} |-> IF r = ref THEN object ELSE heap[r]]

\* A spacecraft object: the fields of sc, its parts being the objects referred to.
SpacecraftObject(sc, position, velocity, orbitalElements) ==
  [sc EXCEPT !.position = position, !.velocity = velocity,
             !.orbitalElements = orbitalElements]

\* The heap that holds the spacecraft sc, as the object owner names.
HeapOfSpacecraft(owner, sc) ==
  [r \in {Self(owner)} \cup {Part(owner, part) : part \in SpacecraftParts} |->
     IF r = Self(owner)
     THEN SpacecraftObject(sc, Part(owner, "position"), Part(owner, "velocity"),
                           Part(owner, "orbitalElements"))
     ELSE sc[r[2]]]

\* The spacecraft the object at ref is, its parts read through their references.
ReadSpacecraft(heap, ref) ==
  [heap[ref] EXCEPT !.position = heap[@], !.velocity = heap[@],
                    !.orbitalElements = heap[@]]

\* Variants: position and velocity of updateOrbitalMotion naming the input's objects.
InputPosition == Part("spacecraft", "position")
InputVelocity == Part("spacecraft", "velocity")

\* updateOrbitalMotion: the objects its names position and velocity are bound to,
\* those orbitalElementsToCartesian made and the Moon's perturbation writes to.
PropagatedPosition == Part("cartesian", "position")
PropagatedVelocity == Part("cartesian", "velocity")

\* updateOrbitalMotion on the spacecraft object "spacecraft": the heap when it
\* returns, newSpacecraft being the value of the object "result" it returns.
updateOrbitalMotionObjects(heap, newSpacecraft) ==
  Store(Store(Store(Store(heap,
    PropagatedPosition, newSpacecraft.position),
    PropagatedVelocity, newSpacecraft.velocity),
    Part("result", "orbitalElements"), newSpacecraft.orbitalElements),
    Self("result"),
    SpacecraftObject(newSpacecraft, PropagatedPosition, PropagatedVelocity,
                     Part("result", "orbitalElements")))

\* applyBurn: the spacecraft object of its result, the input itself when the
\* direction is zero.
BurnedSpacecraft(burnDirection) ==
  IF FEq(VecNorm(burnDirection), FZero) THEN Self("spacecraft") ELSE Self("result")

\* applyBurn on the spacecraft object "spacecraft": the heap when it returns.
\* The object returned is {...spacecraft} with a new velocity and new elements.
applyBurnObjects(heap, burnDirection, burnResult) ==
  IF BurnedSpacecraft(burnDirection) = Self("spacecraft")
  THEN heap
  ELSE Store(Store(Store(heap,
         Part("result", "velocity"), burnResult.spacecraft.velocity),
         Part("result", "orbitalElements"), burnResult.spacecraft.orbitalElements),
         Self("result"),
         SpacecraftObject(burnResult.spacecraft, heap[Self("spacecraft")].position,
                          Part("result", "velocity"), Part("result", "orbitalElements")))

\* A hazard object: the fields of hazard, position and velocity referred to.
HazardObject(hazard, position, velocity) ==
  IF "velocity" \in DOMAIN hazard
  THEN [hazard EXCEPT !.position = position, !.velocity = velocity]
  ELSE [hazard EXCEPT !.position = position]

\* The heap that holds the hazards of a list, hazard k as the object k names.
HeapOfHazards(hazards) ==
  [r \in {Self(k) : k \in 1..Len(hazards)}
         \cup {Part(k, "position") : k \in 1..Len(hazards)}
         \cup {Part(k, "velocity") :
                 k \in {j \in 1..Len(hazards) : "velocity" \in DOMAIN hazards[j]}} |->
     IF r[2] = "self"
     THEN HazardObject(hazards[r[1]], Part(r[1], "position"), Part(r[1], "velocity"))
     ELSE hazards[r[1]][r[2]]]

\* The hazard the object k names is, its parts read through their references.
ReadHazard(heap, k) ==
  IF "velocity" \in DOMAIN heap[Self(k)]
  THEN [heap[Self(k)] EXCEPT !.position = heap[@], !.velocity = heap[@]]
  ELSE [heap[Self(k)] EXCEPT !.position = heap[@]]

\* Variant: the callback of map writing to the hazard it was given.
HazardItself(k, n) == k

\* updateHazards: the object the callback of map returns for hazard k of n, a
\* new one.
MappedHazard(k, n) == n + k

\* updateHazards: the heap after the callback of map ran on hazard k of n,
\* updated being the value it computed.  A debris hazard gets a new position
\* object, the other kinds keep theirs ({...hazard}).
MapHazardObject(heap, k, n, updated) ==
  IF updated.type = "debris" /\ "velocity" \in DOMAIN updated
  THEN Store(Store(heap,
         Part(MappedHazard(k, n), "position"), updated.position),
         Self(MappedHazard(k, n)),
         HazardObject(updated, Part(MappedHazard(k, n), "position"),
                      heap[Self(k)].velocity))
  ELSE Store(heap, Self(MappedHazard(k, n)),
             HazardObject(updated, heap[Self(k)].position, Part(k, "velocity")))

\* updateHazards on the hazard objects 1..n: the heap after map, from hazard k on.
RECURSIVE updateHazardsObjects(_, _, _, _)
updateHazardsObjects(heap, hazards, deltaTime, k) ==
  IF k > Len(hazards)
  THEN heap
  ELSE updateHazardsObjects(
         MapHazardObject(heap, k, Len(hazards), UpdateHazard(hazards[k], deltaTime)),
         hazards, deltaTime, k + 1)

\* The hazards the objects 1..n are after a call that left the heap as given.
HazardsIn(heap, n) == [k \in 1..n |-> ReadHazard(heap, k)]

----------------------------------------------------------------------------
(* State.  The store of useSpaceGame (earth and moon never change and are  *)
(* the definitions initialEarth and initialMoon), and the values the       *)
(* components SpaceGame and SpacecraftControls took from it when they last *)
(* rendered, which their callbacks close over.                             *)

VARIABLES
  spacecraft,     \* store: the current Spacecraft
  hazards,        \* store: the current Hazard[]
  gameTime,       \* store: simulation time, whole seconds
  timeWarp,       \* store: time-warp multiplier
  missionEvents,  \* store: the mission log
  score,          \* store: the score
  view,           \* the store values of the last render
  pending,        \* the number of store changes since the last render
  hazards0,       \* hazard engine runs: the hazard list as generated
  elapsed,        \* hazard engine and orbit runs: cumulative elapsed time; -1 elsewhere
  calls,          \* the number of calls (library runs) or burn commands (game) so far
  probe,          \* library runs: the last call, with its arguments and its result
  seed            \* the module's object initialSpacecraft, and who shares its parts

vars == <<spacecraft, hazards, gameTime, timeWarp, missionEvents, score, view,
          pending, hazards0, elapsed, calls, probe, seed>>

\* Bounds of the model.
MaxGameTime == 20
MaxEvents == 2
MaxElapsed == 120
MaxCalls == 3
\* Store changes that may pile up before React renders again.
MaxPending == 2
\* Burn commands of one run of the game.
MaxBurns == 2

\* Frame times (the "delta" of useFrame), in twentieths of a second.
FrameDeltas == {10}
\* Keys held when the burn key goes down.
NoKeys ==
  [prograde |-> FALSE, retrograde |-> FALSE, normal |-> FALSE,
   antinormal |-> FALSE, radial |-> FALSE, antiradial |-> FALSE]
KeyStates ==
  {NoKeys, [NoKeys EXCEPT !.normal = TRUE, !.antiradial = TRUE, !.radial = TRUE]}

\* Values of Math.random() (hundredths) for the hazards of one generateRandomHazards call.
RadiationDraw(t) == <<10, 50, 60, 50, 50, 50 + t, 80 - t, 0, t, 40 + 2 * t>>
DebrisDraw(v) == <<70, 50, 40, 50, 50, v, 50, 50, 25, 10>>
RandomStreams ==
  {<<RadiationDraw(0), DebrisDraw(60), RadiationDraw(10), DebrisDraw(50), RadiationDraw(0)>>,
   <<DebrisDraw(60), DebrisDraw(40), RadiationDraw(10), RadiationDraw(0), DebrisDraw(50)>>}

NoProbe == [op |-> "none"]

Snapshot(sc, hz, t, w) == [spacecraft |-> sc, hazards |-> hz, gameTime |-> t, timeWarp |-> w]

\* The listener subscribed to state.spacecraft: the events it appends to the log.
LowFuelListener(sc, events) ==
  IF sc.fuel < 100 * 1000 /\ sc.fuel > 0
  THEN Append(events, [type |-> "hazard", description |-> "Low fuel warning!"])
  ELSE events
SpacecraftListener(sc, events) ==
  LowFuelListener(sc,
    IF FLt(Distance(sc.position, initialMoon.position), FInt(10))
    THEN Append(events, [type |-> "milestone",
                         description |-> "Entered Moon's sphere of influence!"])
    ELSE events)

\* 1000 * (spacecraft.fuel / spacecraft.maxFuel)
ScoreOf(sc) == FMul(FInt(1000), FDiv(MassF(sc.fuel), MassF(sc.maxFuel)))

\* The store action updateSpacecraft: the spacecraft it stores.
StoredSpacecraft(sc) == [sc EXCEPT !.isBurning = FALSE]

\* The object initialSpacecraft as the module creates it.  The store starts with
\* this very object as its spacecraft (spacecraft: initialSpacecraft), so the store
\* and the first render share all of it.
Seeded ==
  [snapshot |-> initialSpacecraft,
   stored |-> SpacecraftParts \cup {"self"},
   viewed |-> SpacecraftParts \cup {"self"}]

\* The object initialSpacecraft after a call whose input, read back as inputAfter,
\* shared the parts in viewed with it.
SeedAfter(snapshot, viewed, inputAfter) ==
  [f \in DOMAIN snapshot |->
     IF (IF f \in SpacecraftParts THEN f ELSE "self") \in viewed
     THEN inputAfter[f]
     ELSE snapshot[f]]

\* The parts of initialSpacecraft a spacecraft object refers to, the input of the
\* call that made it sharing the parts in viewed.
SharedAfter(viewed, object) ==
  {part \in SpacecraftParts :
     object[part] \in {Part("spacecraft", q) : q \in viewed \cap SpacecraftParts}}

\* A handler called a function on the spacecraft of its render and stored
\* {...result, isBurning: false}: heap is the heap the call left.
SeedAfterCall(heap, result) ==
  seed' = [snapshot |-> SeedAfter(seed.snapshot, seed.viewed,
                                  ReadSpacecraft(heap, Self("spacecraft"))),
           stored |-> SharedAfter(seed.viewed, heap[result]),
           viewed |-> seed.viewed]

Init ==
  /\ spacecraft = initialSpacecraft
  /\ hazards \in {generateRandomHazards(HAZARD_COUNT, 0, r) : r \in RandomStreams}
  /\ gameTime = 0
  /\ timeWarp = 2
  /\ missionEvents = <<>>
  /\ score = FInt(1000)
  /\ view = Snapshot(spacecraft, hazards, gameTime, timeWarp)
  /\ pending = 0
  /\ hazards0 = <<>>
  /\ elapsed = -1
  /\ calls = 0
  /\ probe = NoProbe
  /\ seed = Seeded

SIMULATION_SPEED == 20
BURN_DELTA_V == 1

\* The useFrame callback: what it stores, for the spacecraft, hazards and time it computed.
TickStore(newSpacecraft, newHazards, newTime, newEvents) ==
  /\ newTime <= MaxGameTime
  /\ Len(newEvents) <= MaxEvents
  /\ spacecraft' = StoredSpacecraft(newSpacecraft)
  /\ score' = ScoreOf(newSpacecraft)
  /\ missionEvents' = newEvents
  /\ hazards' = newHazards
  /\ gameTime' = newTime
  /\ pending' = pending + 1
  /\ UNCHANGED <<timeWarp, view, hazards0, elapsed, calls, probe>>

\* The useFrame callback from the propagated spacecraft on.
TickWith(adjustedDelta, newSpacecraft) ==
  /\ TickStore(newSpacecraft,
               updateHazards(view.hazards, adjustedDelta),
               view.gameTime + adjustedDelta,
               SpacecraftListener(StoredSpacecraft(newSpacecraft), missionEvents))
  /\ SeedAfterCall(updateOrbitalMotionObjects(
                     HeapOfSpacecraft("spacecraft", view.spacecraft), newSpacecraft),
                   Self("result"))

\* The useFrame callback for the simulated time adjustedDelta.
TickBy(adjustedDelta) ==
  \E newSpacecraft \in {updateOrbitalMotion(view.spacecraft, initialEarth,
                                            FInt(adjustedDelta), initialMoon)} :
     TickWith(adjustedDelta, newSpacecraft)

\* components/SpaceGame.tsx: the useFrame callback, for a frame that took delta.
Tick(delta) ==
  /\ pending < MaxPending
  /\ TickBy((delta * view.timeWarp * SIMULATION_SPEED) \div 20)

\* components/SpacecraftControls.tsx: the direction the held keys give the burn.
BurnDirectionOf(controls) ==
  LET z == IF controls.retrograde THEN -1 ELSE IF controls.prograde THEN 1 ELSE 0
      y == IF controls.antinormal THEN -1 ELSE IF controls.normal THEN 1 ELSE 0
      x == IF controls.antiradial THEN -1 ELSE IF controls.radial THEN 1 ELSE 0
  IN IF x = 0 /\ y = 0 /\ z = 0
     THEN Vec(FZero, FZero, FOne)
     ELSE Vec(FInt(x), FInt(y), FInt(z))

\* The burn handler: what it stores, for the result of applyBurn and the log.
BurnStore(burnResult, newEvents) ==
  /\ Len(newEvents) <= MaxEvents
  /\ spacecraft' = StoredSpacecraft(burnResult.spacecraft)
  /\ score' = ScoreOf(burnResult.spacecraft)
  /\ missionEvents' = newEvents

\* Variant: addMissionEvent storing the new record alone.
BurnWithFreshLog(burnResult) ==
  BurnStore(burnResult,
            <<[type |-> "burn",
               deltaV |-> burnResult.deltaV,
               fuel |-> burnResult.spacecraft.fuel]>>)

\* The burn handler from the result of applyBurn on.
BurnWith(burnResult) ==
  BurnStore(burnResult,
            Append(SpacecraftListener(StoredSpacecraft(burnResult.spacecraft),
                                      missionEvents),
                   [type |-> "burn",
                    deltaV |-> burnResult.deltaV,
                    fuel |-> burnResult.spacecraft.fuel]))

\* The burn handler from the call of applyBurn on.
BurnFrom(burnDirection, burnResult) ==
  /\ BurnWith(burnResult)
  /\ SeedAfterCall(applyBurnObjects(HeapOfSpacecraft("spacecraft", view.spacecraft),
                                    burnDirection, burnResult),
                   BurnedSpacecraft(burnDirection))

\* The burn handler from the burn direction on.
BurnAlongKeys(burnDirection) ==
  \E burnResult \in {applyBurn(view.spacecraft, burnDirection, FInt(BURN_DELTA_V))} :
     BurnFrom(burnDirection, burnResult)

\* components/SpacecraftControls.tsx: the burn key goes down.
Burn(controls) ==
  /\ pending < MaxPending
  /\ view.spacecraft.fuel > 0
  /\ BurnAlongKeys(BurnDirectionOf(controls))
  /\ pending' = pending + 1
  /\ calls < MaxBurns
  /\ calls' = calls + 1
  /\ UNCHANGED <<hazards, gameTime, timeWarp, view, hazards0, elapsed, probe>>

\* components/SpacecraftControls.tsx: the warp key goes down.
ToggleTimeWarp ==
  /\ pending < MaxPending
  /\ timeWarp' = IF timeWarp = 1 THEN 2 ELSE 1
  /\ pending' = pending + 1
  /\ UNCHANGED <<spacecraft, hazards, gameTime, missionEvents, score, view,
                 hazards0, elapsed, calls, probe, seed>>

\* The store action resetMission (the Reset button of MissionUI).
ResetMission ==
  /\ pending < MaxPending
  /\ pending' = pending + 1
  /\ spacecraft' = seed.snapshot
  /\ seed' = [seed EXCEPT !.stored = SpacecraftParts]
  /\ gameTime' = 0
  /\ timeWarp' = 1
  /\ missionEvents' = SpacecraftListener(seed.snapshot, <<>>)
  /\ score' = FInt(1000)
  /\ hazards' \in {generateRandomHazards(HAZARD_COUNT, 0, r) : r \in RandomStreams}
  /\ UNCHANGED <<view, hazards0, elapsed, calls, probe>>

\* React renders the components again after the store changed.
Render ==
  /\ pending > 0
  /\ view' = Snapshot(spacecraft, hazards, gameTime, timeWarp)
  /\ seed' = [seed EXCEPT !.viewed = seed.stored]
  /\ pending' = 0
  /\ UNCHANGED <<spacecraft, hazards, gameTime, timeWarp, missionEvents, score,
                 hazards0, elapsed, calls, probe>>

Next ==
  \/ \E delta \in FrameDeltas : Tick(delta)
  \/ \E controls \in KeyStates : Burn(controls)
  \/ ToggleTimeWarp
  \/ ResetMission
  \/ Render

Spec == Init /\ [][Next]_vars

----------------------------------------------------------------------------
(* The flight library driven call by call: the seeded spacecraft under any  *)
(* sequence of burns (lib/spacecraft.ts), propagation steps                 *)
(* (lib/orbitalMechanics.ts) and mission resets.  The spacecraft of a call  *)
(* is the spacecraft the call before it returned.                           *)

\* Burn directions: none, prograde, retrograde, and a direction off the axes.
BurnDirections ==
  {Vec(FZero, FZero, FZero), Vec(FZero, FZero, FOne), Vec(FZero, FZero, FNeg(FOne)),
   Vec(FOne, FNeg(FOne), FZero)}
\* Delta-v magnitudes of a burn, m/s.
BurnDeltaVs == {0, 1, 2000}
\* Propagation steps, seconds.
PropagationSteps == {60}

InitFlight ==
  /\ spacecraft = initialSpacecraft
  /\ hazards = <<>>
  /\ gameTime = 0
  /\ timeWarp = 1
  /\ missionEvents = <<>>
  /\ score = FInt(1000)
  /\ view = Snapshot(spacecraft, hazards, gameTime, timeWarp)
  /\ pending = 0
  /\ hazards0 = <<>>
  /\ elapsed = -1
  /\ calls = 0
  /\ probe = NoProbe
  /\ seed = Seeded

\* A call of applyBurn that returned burnResult.
ApplyBurnReturning(burnDirection, deltaVMagnitude, burnResult) ==
  /\ calls' = calls + 1
  /\ spacecraft' = burnResult.spacecraft
  /\ probe' = [op |-> "applyBurn",
               spacecraft |-> spacecraft,
               burnDirection |-> burnDirection,
               deltaVMagnitude |-> deltaVMagnitude,
               result |-> burnResult]
  /\ UNCHANGED <<hazards, gameTime, timeWarp, missionEvents, score, view, pending,
                 hazards0, elapsed, seed>>

\* A call of applyBurn.
ApplyBurn(burnDirection, deltaVMagnitude) ==
  /\ calls < MaxCalls
  /\ \E burnResult \in {applyBurn(spacecraft, burnDirection, FInt(deltaVMagnitude))} :
        ApplyBurnReturning(burnDirection, deltaVMagnitude, burnResult)

\* A call of updateOrbitalMotion.
Propagate(deltaTime) ==
  /\ calls < MaxCalls
  /\ calls' = calls + 1
  /\ spacecraft' = updateOrbitalMotion(spacecraft, initialEarth, FInt(deltaTime),
                                       initialMoon)
  /\ probe' = [op |-> "updateOrbitalMotion",
               spacecraft |-> spacecraft,
               deltaTime |-> deltaTime]
  /\ UNCHANGED <<hazards, gameTime, timeWarp, missionEvents, score, view, pending,
                 hazards0, elapsed, seed>>

\* A mission reset: the spacecraft is the seeded one again.
ResetSpacecraft ==
  /\ calls < MaxCalls
  /\ calls' = calls + 1
  /\ spacecraft' = initialSpacecraft
  /\ probe' = [op |-> "resetMission"]
  /\ UNCHANGED <<hazards, gameTime, timeWarp, missionEvents, score, view, pending,
                 hazards0, elapsed, seed>>

NextFlight ==
  \/ \E burnDirection \in BurnDirections, deltaVMagnitude \in BurnDeltaVs :
        ApplyBurn(burnDirection, deltaVMagnitude)
  \/ \E deltaTime \in PropagationSteps : Propagate(deltaTime)
  \/ ResetSpacecraft

SpecFlight == InitFlight /\ [][NextFlight]_vars

----------------------------------------------------------------------------
(* The hazard engine driven call by call (lib/hazards.ts): a generated      *)
(* hazard list advanced by updateHazards and queried by the three query     *)
(* functions.  Points and velocities of a query are in hundredths.          *)

\* A hazard of the third kind of the Hazard type; generateRandomHazards makes none.
PerturbationHazard ==
  [id |-> <<"perturbation", 0, 0>>,
   type |-> "perturbation",
   position |-> [x |-> 2000, y |-> 0, z |-> 0],
   radius |-> 300,
   intensity |-> 5,
   duration |-> 100,
   timeRemaining |-> 100,
   force |-> [x |-> 0, y |-> 0, z |-> 0]]

HazardLists ==
  LET generated == {generateRandomHazards(HAZARD_COUNT, 0, r) : r \in RandomStreams}
  IN generated \cup {Append(hz, PerturbationHazard) : hz \in generated}

\* Elapsed times of an updateHazards call, seconds.
HazardSteps == {20, 30}
\* Spacecraft positions of a query: on the boundary of a radiation storm, at its
\* centre, where a debris object starts, and far from every hazard.
QueryPoints ==
  {[x |-> 2150, y |-> 200, z |-> 0], [x |-> 2000, y |-> 0, z |-> 0],
   [x |-> -1500, y |-> 0, z |-> 0], [x |-> 0, y |-> 0, z |-> 667]}
\* Spacecraft velocities of a query.
QueryVelocities ==
  {[x |-> 0, y |-> 0, z |-> 0], [x |-> 300, y |-> 400, z |-> 0],
   [x |-> 1100, y |-> 0, z |-> 0]}

\* a point given in hundredths as the numbers the functions work on
PointF(p) == [x |-> LenF(p.x), y |-> LenF(p.y), z |-> LenF(p.z)]

InitHazards ==
  /\ spacecraft = initialSpacecraft
  /\ hazards0 \in HazardLists
  /\ hazards = hazards0
  /\ gameTime = 0
  /\ timeWarp = 1
  /\ missionEvents = <<>>
  /\ score = FInt(1000)
  /\ view = Snapshot(spacecraft, hazards, gameTime, timeWarp)
  /\ pending = 0
  /\ elapsed = 0
  /\ calls = 0
  /\ probe = NoProbe
  /\ seed = Seeded

\* A call of updateHazards on the current list.
Advance(deltaTime) ==
  /\ elapsed + deltaTime <= MaxElapsed
  /\ elapsed' = elapsed + deltaTime
  /\ hazards' = updateHazards(hazards, deltaTime)
  /\ probe' = [op |-> "updateHazards", hazards |-> hazards, deltaTime |-> deltaTime]
  /\ UNCHANGED <<spacecraft, gameTime, timeWarp, missionEvents, score, view, pending,
                 hazards0, calls, seed>>

\* A call of checkHazardCollision on the current list.
CheckCollision(point) ==
  /\ probe' = [op |-> "checkHazardCollision", position |-> point,
               result |-> checkHazardCollision(PointF(point), hazards)]
  /\ UNCHANGED <<spacecraft, hazards, gameTime, timeWarp, missionEvents, score, view,
                 pending, hazards0, elapsed, calls, seed>>

\* A call of calculateRadiationDose on the current list.
RadiationDose(point) ==
  /\ probe' = [op |-> "calculateRadiationDose", position |-> point,
               result |-> calculateRadiationDose(PointF(point), hazards)]
  /\ UNCHANGED <<spacecraft, hazards, gameTime, timeWarp, missionEvents, score, view,
                 pending, hazards0, elapsed, calls, seed>>

\* A call of calculateCollisionProbability on debris k of the current list.
CollisionProbability(point, velocity, k) ==
  /\ k \in 1..Len(hazards)
  /\ hazards[k].type = "debris"
  /\ probe' = [op |-> "calculateCollisionProbability", position |-> point,
               velocity |-> velocity, debris |-> hazards[k],
               result |-> calculateCollisionProbability(PointF(point), PointF(velocity),
                                                        hazards[k])]
  /\ UNCHANGED <<spacecraft, hazards, gameTime, timeWarp, missionEvents, score, view,
                 pending, hazards0, elapsed, calls, seed>>

NextHazards ==
  \/ \E deltaTime \in HazardSteps : Advance(deltaTime)
  \/ \E point \in QueryPoints : CheckCollision(point)
  \/ \E point \in QueryPoints : RadiationDose(point)
  \/ \E point \in QueryPoints, velocity \in QueryVelocities, k \in 1..(HAZARD_COUNT + 1) :
        CollisionProbability(point, velocity, k)

SpecHazards == InitHazards /\ [][NextHazards]_vars

----------------------------------------------------------------------------
(* The orbit functions of lib/orbitalMechanics.ts on their own: a spacecraft *)
(* placed on an orbit given by its elements, converted to a state vector and *)
(* back, or propagated around the orbit with no Moon passed.                 *)

\* The parts a period is stepped in: a step takes a whole number of them.
PeriodParts == 4
\* Steps of a propagation, in parts of the period.
StepParts == {1, 2, PeriodParts}

\* Sizes of an orbit with the gravitational parameter of its units: the seeded
\* orbit in scene units, and a low orbit in kilometres.
OrbitSizes ==
  {[semiMajorAxis |-> FAdd(earthVisRadius, spacecraftAltitude), mu |-> initialEarth.mu],
   [semiMajorAxis |-> FInt(7000), mu |-> MU_EARTH]}
Eccentricities == {FZero, FRat(1, 10), FRat(1, 2), FRat(89, 100)}
Inclinations == {FZero, FRat(1, 2), FInt(2)}
AscendingNodes == {FZero, FOne}
Periapses == {FZero, FTwo}
Anomalies == {FZero, FOne, FInt(-2)}

\* The elements of a spacecraft at anomaly nu of an orbit.
ElementsOn(size, eccentricity, inclination, Omega, omega, nu) ==
  [semiMajorAxis |-> size.semiMajorAxis,
   eccentricity |-> eccentricity,
   inclination |-> inclination,
   longitudeOfAscendingNode |-> Omega,
   argumentOfPeriapsis |-> omega,
   trueAnomaly |-> nu,
   meanAnomaly |-> nu,
   altitude |-> FZero]

OrbitElements ==
  {ElementsOn(size, eccentricity, inclination, Omega, omega, nu) :
     size \in OrbitSizes, eccentricity \in Eccentricities, inclination \in Inclinations,
     Omega \in AscendingNodes, omega \in Periapses, nu \in Anomalies}

\* A spacecraft with the given elements at the state vector cart.
SpacecraftAt(elements, cart) ==
  [initialSpacecraft EXCEPT
     !.position = cart.position,
     !.velocity = cart.velocity,
     !.orbitalElements =
        [elements EXCEPT !.altitude =
           FSub(VecNorm(cart.position), FInt(EARTH_RADIUS))]]

\* A spacecraft on the orbit of its elements: its position and velocity are
\* those orbitalElementsToCartesian gives for them.
OnOrbit(elements, mu) ==
  Const(orbitalElementsToCartesian(elements, mu),
        LAMBDA cart : SpacecraftAt(elements, cart))

\* The period of an orbit, 2 pi sqrt(a^3 / mu), as a caller works it out.
OrbitalPeriod(mu, a) == FMul(FTwoPi, FSqrt(FDiv(FMul(FMul(a, a), a), mu)))

InitOrbit ==
  /\ \E size \in OrbitSizes, elements \in OrbitElements :
       /\ elements.semiMajorAxis = size.semiMajorAxis
       /\ spacecraft = OnOrbit(elements, size.mu)
       /\ probe = [op |-> "orbit", mu |-> size.mu, start |-> spacecraft]
  /\ hazards = <<>>
  /\ gameTime = 0
  /\ timeWarp = 1
  /\ missionEvents = <<>>
  /\ score = FInt(1000)
  /\ view = Snapshot(initialSpacecraft, hazards, gameTime, timeWarp)
  /\ pending = 0
  /\ hazards0 = <<>>
  /\ elapsed = 0
  /\ calls = 0
  /\ seed = Seeded

\* cartesianToOrbitalElements on the state vector cart.
ElementsOfState(cart, mu) == cartesianToOrbitalElements(cart.position, cart.velocity, mu)

\* cartesianToOrbitalElements(orbitalElementsToCartesian(E, mu), mu) on the
\* elements of the spacecraft.
RoundTrip ==
  /\ probe.op = "orbit"
  /\ elapsed = 0
  /\ calls' = calls + 1
  /\ \E cart \in {orbitalElementsToCartesian(spacecraft.orbitalElements, probe.mu)} :
        probe' = [op |-> "roundTrip", mu |-> probe.mu, start |-> probe.start,
                  result |-> ElementsOfState(cart, probe.mu)]
  /\ UNCHANGED <<spacecraft, hazards, gameTime, timeWarp, missionEvents, score, view,
                 pending, hazards0, elapsed, seed>>

\* A call of updateOrbitalMotion with no Moon passed, over the given number of
\* parts of the period.
PropagateFree(parts) ==
  /\ probe.op = "orbit"
  /\ elapsed + parts <= PeriodParts
  /\ elapsed' = elapsed + parts
  /\ calls' = calls + 1
  /\ \E deltaTime \in {FMul(FRat(parts, PeriodParts),
                              OrbitalPeriod(probe.mu,
                                            spacecraft.orbitalElements.semiMajorAxis))} :
        spacecraft' = updateOrbitalMotion(spacecraft, [mu |-> probe.mu], deltaTime, NoMoon)
  /\ UNCHANGED <<hazards, gameTime, timeWarp, missionEvents, score, view, pending,
                 hazards0, probe, seed>>

NextOrbit ==
  \/ RoundTrip
  \/ \E parts \in StepParts : PropagateFree(parts)

SpecOrbit == InitOrbit /\ [][NextOrbit]_vars

----------------------------------------------------------------------------
(* Properties of the propulsion model, under SpecFlight.                    *)

ZeroVector == Vec(FZero, FZero, FZero)
\* The last call was applyBurn with a direction that is not the zero vector.
BurnCalled == probe.op = "applyBurn" /\ probe.burnDirection # ZeroVector
\* The last call was applyBurn and the fuel did not suffice for the requested delta-v.
FuelShort ==
  BurnCalled /\ NominalFuel(probe.spacecraft, FInt(probe.deltaVMagnitude)) > probe.spacecraft.fuel

\* C1: in every state reachable from the seeded spacecraft by propagation steps,
\* burns (any direction, any delta-v magnitude >= 0) and mission resets,
\* 0 <= spacecraft.fuel <= spacecraft.maxFuel.
C1_FuelInRange == 0 <= spacecraft.fuel /\ spacecraft.fuel <= spacecraft.maxFuel

\* A burn the fuel did not suffice for emptied a tank that held fuel, and the
\* spacecraft was propagated after it.
C1_Witness ==
  /\ probe.op = "updateOrbitalMotion"
  /\ spacecraft.fuel = 0
  /\ calls = 3

\* C2: for every applyBurn call, on every path (full burn, fuel-clamped burn,
\* zero-direction no-op), the mass returned is the input mass minus the fuelUsed
\* returned, and the fuel returned is the input fuel minus the fuelUsed returned.
C2_MassConservation ==
  probe.op = "applyBurn" =>
    /\ probe.result.spacecraft.mass = probe.spacecraft.mass - probe.result.fuelUsed
    /\ probe.result.spacecraft.fuel = probe.spacecraft.fuel - probe.result.fuelUsed

\* A full burn that used fuel and left fuel, on a spacecraft that had burned before.
C2_Witness ==
  /\ BurnCalled
  /\ ~FuelShort
  /\ probe.result.fuelUsed > 0
  /\ probe.result.spacecraft.fuel > 0
  /\ probe.spacecraft.fuel < probe.spacecraft.maxFuel

C4_ClampedBurn ==
  FuelShort =>
    /\ probe.result.fuelUsed = probe.spacecraft.fuel
    /\ probe.result.spacecraft.fuel = 0
    /\ probe.result.spacecraft.isBurning
    /\ probe.result.deltaV =
         calculateDeltaV(MassF(probe.spacecraft.mass),
                         MassF(probe.spacecraft.mass - probe.spacecraft.fuel),
                         FInt(SPECIFIC_IMPULSE))

\* The fuel was short on a tank that held fuel, and the burn changed the velocity.
C4_Witness ==
  /\ FuelShort
  /\ probe.spacecraft.fuel > 0
  /\ probe.result.fuelUsed > 0
  /\ probe.result.spacecraft.velocity # probe.spacecraft.velocity

\* C5: applyBurn with the zero vector as direction is a no-op for any delta-v
\* magnitude and any spacecraft: it returns the input spacecraft with every field
\* unchanged, deltaV = 0 and fuelUsed = 0.
C5_ZeroDirectionNoOp ==
  (probe.op = "applyBurn" /\ probe.burnDirection = ZeroVector) =>
    /\ probe.result.spacecraft = probe.spacecraft
    /\ probe.result.deltaV = FZero
    /\ probe.result.fuelUsed = 0

\* The zero direction with a large delta-v, on a spacecraft that has burned.
C5_Witness ==
  /\ probe.op = "applyBurn"
  /\ probe.burnDirection = ZeroVector
  /\ probe.deltaVMagnitude = 2000
  /\ probe.spacecraft.fuel < probe.spacecraft.maxFuel
  /\ probe.spacecraft.isBurning

----------------------------------------------------------------------------
(* Properties of the hazard engine, under SpecHazards.                      *)

\* The hazard of a list that has the identity of h, if any.
Same(hz, h) == {k \in 1..Len(hz) : hz[k].id = h.id}
\* The square of the distance between two points given in hundredths.
Dist2(p, q) ==
  (p.x - q.x) * (p.x - q.x) + (p.y - q.y) * (p.y - q.y) + (p.z - q.z) * (p.z - q.z)
\* The point is within the hazard's radius, boundary included.
Within(point, hazard) == Dist2(point, hazard.position) <= hazard.radius * hazard.radius

\* C6: a hazard created with timeRemaining = T is in the output of updateHazards
\* while the cumulative elapsed time is < T and in no output once it is >= T; the
\* hazards present have timeRemaining = T - elapsed > 0 (a debris hazard, with
\* T = +Infinity, is never removed).
C6_HazardExpiry ==
  elapsed >= 0 =>
    /\ \A k \in 1..Len(hazards0) :
         (elapsed < hazards0[k].timeRemaining) <=> (Same(hazards, hazards0[k]) # {})
    /\ \A k \in 1..Len(hazards0) : \A j \in Same(hazards, hazards0[k]) :
         /\ hazards[j].timeRemaining = TimeSub(hazards0[k].timeRemaining, elapsed)
         /\ hazards[j].timeRemaining > 0
    /\ \A j \in 1..Len(hazards) : \E k \in 1..Len(hazards0) : hazards0[k].id = hazards[j].id

\* An updateHazards call brought the elapsed time to exactly the timeRemaining of
\* one radiation storm, while another storm and the debris stay.
C6_Witness ==
  /\ probe.op = "updateHazards"
  /\ \E k \in 1..Len(hazards0) :
       hazards0[k].timeRemaining = elapsed /\ Same(hazards, hazards0[k]) = {}
  /\ \E j \in 1..Len(hazards) : hazards[j].type = "radiation"
  /\ \E j \in 1..Len(hazards) : hazards[j].type = "debris"

\* C7 as stated: every hazard, of every kind, that survives an updateHazards call
\* with elapsed time > 0 has a timeRemaining strictly smaller than before the call.
C7_EveryKindDecreases ==
  (probe.op = "updateHazards" /\ probe.deltaTime > 0) =>
    \A j \in 1..Len(hazards) : \A k \in Same(probe.hazards, hazards[j]) :
      hazards[j].timeRemaining < probe.hazards[k].timeRemaining

\* C7, amended: every surviving hazard with a finite timeRemaining has it smaller by
\* exactly the elapsed time; a debris hazard keeps timeRemaining = +Infinity.
C7_FiniteDecreases ==
  (probe.op = "updateHazards" /\ probe.deltaTime > 0) =>
    \A j \in 1..Len(hazards) : \A k \in Same(probe.hazards, hazards[j]) :
      IF probe.hazards[k].timeRemaining = Infinity
      THEN hazards[j].timeRemaining = Infinity
      ELSE /\ hazards[j].timeRemaining = probe.hazards[k].timeRemaining - probe.deltaTime
           /\ hazards[j].timeRemaining < probe.hazards[k].timeRemaining

\* A call with elapsed time > 0 that a radiation storm, a debris object and the
\* perturbation all survived.
C7_Witness ==
  /\ probe.op = "updateHazards"
  /\ probe.deltaTime > 0
  /\ \E j \in 1..Len(hazards) : hazards[j].type = "radiation"
  /\ \E j \in 1..Len(hazards) : hazards[j].type = "debris"
  /\ \E j \in 1..Len(hazards) : hazards[j].type = "perturbation"

\* C8: checkHazardCollision returns exactly the hazards, of any kind and in input
\* order, whose Euclidean distance from the spacecraft position is <= their radius.
C8_CollisionSet ==
  probe.op = "checkHazardCollision" =>
    probe.result = SelectSeq(hazards, LAMBDA hazard : Within(probe.position, hazard))

\* A query from a point at distance exactly the radius of a radiation storm, inside
\* the perturbation, with hazards farther away left out.
C8_Witness ==
  /\ probe.op = "checkHazardCollision"
  /\ \E j \in 1..Len(probe.result) :
       /\ probe.result[j].type = "radiation"
       /\ Dist2(probe.position, probe.result[j].position)
            = probe.result[j].radius * probe.result[j].radius
  /\ \E j \in 1..Len(probe.result) : probe.result[j].type = "perturbation"
  /\ Len(probe.result) < Len(hazards)

\* The radiation hazards a point is within.
Irradiating(point, hz) ==
  SelectSeq(hz, LAMBDA hazard : hazard.type = "radiation" /\ Within(point, hazard))
\* intensity * max(0, 1 - distance / radius), summed over a list in order.
RECURSIVE FalloffSum(_, _)
FalloffSum(point, hz) ==
  IF hz = <<>> THEN FZero
  ELSE LET hazard == hz[Len(hz)]
           distance == Distance(PointF(point), HazardPos(hazard))
       IN FAdd(FalloffSum(point, SubSeq(hz, 1, Len(hz) - 1)),
               FMul(FInt(hazard.intensity),
                    FMax(FZero, FSub(FOne, FDiv(distance, LenF(hazard.radius))))))

\* C9: calculateRadiationDose returns the sum, over exactly the radiation hazards
\* whose distance to the position is <= their radius, of
\* intensity * max(0, 1 - distance / radius); other kinds never contribute and the
\* result is 0 when no radiation hazard qualifies.
C9_RadiationDose ==
  probe.op = "calculateRadiationDose" =>
    /\ probe.result = FalloffSum(probe.position, Irradiating(probe.position, hazards))
    /\ Irradiating(probe.position, hazards) = <<>> => probe.result = FZero

\* A dose summed over two storms at a point that is also inside the perturbation
\* and has debris in the list.
C9_Witness ==
  /\ probe.op = "calculateRadiationDose"
  /\ Len(Irradiating(probe.position, hazards)) >= 2
  /\ FGt(probe.result, FZero)
  /\ \E j \in 1..Len(hazards) :
       hazards[j].type = "perturbation" /\ Within(probe.position, hazards[j])

\* The square of the speed of the spacecraft relative to the debris, in hundredths.
RelSpeed2(velocity, debris) == Dist2(velocity, debris.velocity)

----------------------------------------------------------------------------
(* Properties of the orbital elements the flight library returns, under     *)
(* SpecFlight.                                                              *)

\* The last call was a propagation step.
Propagated_ == probe.op = "updateOrbitalMotion"
\* The last call was a burn along a direction that is not zero.
BurnedAlong == BurnCalled /\ probe.burnDirection # ZeroVector

\* C11: after a call that changes the velocity (applyBurn along a direction, a
\* propagation step with the Moon's nudge), the orbitalElements returned are the
\* conversion of the position and velocity returned, with the gravitational
\* parameter of the call (for the propagation step, either parameter of the Earth).
C11_ElementsRederived ==
  /\ BurnedAlong =>
       probe.result.spacecraft.orbitalElements =
         cartesianToOrbitalElements(probe.result.spacecraft.position,
                                    probe.result.spacecraft.velocity, MU_EARTH)
  /\ Propagated_ =>
       \/ spacecraft.orbitalElements =
            cartesianToOrbitalElements(spacecraft.position, spacecraft.velocity,
                                       initialEarth.mu)
       \/ spacecraft.orbitalElements =
            cartesianToOrbitalElements(spacecraft.position, spacecraft.velocity,
                                       MU_EARTH)

\* C12: applyBurn along a direction recomputes the orbital elements with the
\* gravitational parameter the propagation step uses for the same spacecraft,
\* earth.mu, which is MU_EARTH divided by the cube of the visualization scale.
C12_BurnUsesScaledMu ==
  BurnedAlong =>
    probe.result.spacecraft.orbitalElements =
      cartesianToOrbitalElements(probe.result.spacecraft.position,
                                 probe.result.spacecraft.velocity, initialEarth.mu)

\* The spacecraft is a snapshot as seeded or as a propagation step returned it.
SeededOrPropagated == probe.op \in {"none", "resetMission", "updateOrbitalMotion"}

\* C13: in the seeded snapshot and in every snapshot a propagation step returns,
\* orbitalElements.altitude is the Euclidean norm of the position minus the radius
\* of the Earth (the radius of the body passed in, or the constant EARTH_RADIUS).
C13_AltitudeFromPosition ==
  SeededOrPropagated =>
    \/ spacecraft.orbitalElements.altitude =
         FSub(VecNorm(spacecraft.position), initialEarth.radius)
    \/ spacecraft.orbitalElements.altitude =
         FSub(VecNorm(spacecraft.position), FInt(EARTH_RADIUS))

----------------------------------------------------------------------------
(* Properties of the running game, under Spec.                              *)

\* A step of the burn handler, of the useFrame callback.
BurnStep == \E controls \in KeyStates : Burn(controls)
TickStep == \E delta \in FrameDeltas : Tick(delta)

\* C14: the stored spacecraft has isBurning = true from the commit of a burn
\* until the commit of the next tick, which clears it.
C14_BurningUntilNextTick ==
  [][/\ BurnStep => spacecraft'.isBurning
     /\ TickStep => ~spacecraft'.isBurning]_vars

\* C15: a tick never takes back a committed burn: the fuel and mass a tick
\* stores are the fuel and mass that were stored when it ran.
C15_TickKeepsBurn ==
  [][TickStep => /\ spacecraft'.fuel = spacecraft.fuel
                 /\ spacecraft'.mass = spacecraft.mass]_vars

\* s is a prefix of t.
IsPrefix(s, t) == Len(s) <= Len(t) /\ SubSeq(t, 1, Len(s)) = s
\* A spacecraft the listener reports twice: near the Moon and low on fuel.
NearMoonLowFuel ==
  [spacecraft EXCEPT !.position = initialMoon.position, !.fuel = 50 * 1000]

\* C16: between resets the mission log only grows at its end, every earlier
\* record unchanged, whoever appends (the burn handler, the milestone and
\* low-fuel checks of the listener); resetMission alone removes records, and it
\* leaves the log empty.
C16_LogAppendOnly ==
  /\ [][\/ IsPrefix(missionEvents, missionEvents')
         \/ (ResetMission /\ missionEvents' = <<>>)]_vars
  /\ [](/\ IsPrefix(missionEvents, SpacecraftListener(NearMoonLowFuel, missionEvents))
        /\ Len(SpacecraftListener(NearMoonLowFuel, missionEvents))
             = Len(missionEvents) + 2)

\* Two burns of one mission are in the log, the second made on the spacecraft the
\* first returned.
C16_Witness ==
  /\ Len(missionEvents) = 2
  /\ missionEvents[1].type = "burn"
  /\ missionEvents[2].type = "burn"
  /\ missionEvents[2].fuel < missionEvents[1].fuel

\* C17: resetMission makes the store's spacecraft equal, field for field, to the
\* seeded snapshot the module created, with gameTime 0 and score 1000; and the
\* ticks and burns before it never changed the object that holds that snapshot.
C17_ResetRestoresSeed ==
  /\ [](seed.snapshot = initialSpacecraft)
  /\ [][ResetMission => /\ spacecraft' = initialSpacecraft
                        /\ gameTime' = 0
                        /\ score' = FInt(1000)]_vars

\* A reset has just run on a mission that had burned and ticked: the store holds
\* the seed again while the last render still shows the old mission.
C17_Witness ==
  /\ calls > 0
  /\ pending > 0
  /\ view.gameTime > 0
  /\ view.spacecraft.fuel < initialSpacecraft.fuel
  /\ spacecraft = initialSpacecraft
  /\ seed.stored = SpacecraftParts
  /\ gameTime = 0
  /\ score = FInt(1000)
  /\ missionEvents = <<>>

\* The spacecraft a render handed to a function, read back after the call
\* returned leaving heap.
InputAfter(heap) == ReadSpacecraft(heap, Self("spacecraft"))

\* The spacecraft of the current render after the propagation of a frame tick.
InputAfterPropagation(adjustedDelta) ==
  InputAfter(updateOrbitalMotionObjects(
               HeapOfSpacecraft("spacecraft", view.spacecraft),
               updateOrbitalMotion(view.spacecraft, initialEarth, FInt(adjustedDelta),
                                   initialMoon)))

\* The hazard list of the current render after the updateHazards of a frame tick.
HazardsAfterUpdate(adjustedDelta) ==
  HazardsIn(updateHazardsObjects(HeapOfHazards(view.hazards), view.hazards,
                                 adjustedDelta, 1),
            Len(view.hazards))

\* The spacecraft of the current render after a burn along burnDirection.
InputAfterBurn(burnDirection) ==
  InputAfter(applyBurnObjects(
               HeapOfSpacecraft("spacecraft", view.spacecraft), burnDirection,
               applyBurn(view.spacecraft, burnDirection, FInt(BURN_DELTA_V))))

\* C18: updateOrbitalMotion, applyBurn and updateHazards are pure: after the calls
\* a frame tick or a burn command makes on the spacecraft and the hazard list of
\* the current render, the spacecraft with its position, velocity and
\* orbitalElements objects and every hazard of the list have the field values
\* they had before the call.
C18_PureFunctions ==
  /\ \A delta \in FrameDeltas :
       /\ InputAfterPropagation((delta * view.timeWarp * SIMULATION_SPEED) \div 20)
            = view.spacecraft
       /\ HazardsAfterUpdate((delta * view.timeWarp * SIMULATION_SPEED) \div 20)
            = view.hazards
  /\ \A burnDirection \in {BurnDirectionOf(controls) : controls \in KeyStates}
                         \cup {ZeroVector} :
       InputAfterBurn(burnDirection) = view.spacecraft

\* A tick has committed its results, a burn came before it, and the render the
\* tick ran on still holds its inputs: the Moon step moved the result, a debris
\* hazard moved, and the objects of the render kept their values.
C18_Witness ==
  /\ pending = 1
  /\ calls > 0
  /\ view.spacecraft.fuel < initialSpacecraft.fuel
  /\ gameTime > view.gameTime
  /\ spacecraft.position # view.spacecraft.position
  /\ spacecraft.velocity # view.spacecraft.velocity
  /\ \E k \in 1..Len(hazards) :
       /\ Len(hazards) = Len(view.hazards)
       /\ hazards[k].position # view.hazards[k].position
  /\ C18_PureFunctions

----------------------------------------------------------------------------
(* Properties of the orbit functions, under SpecOrbit.                      *)

\* The tolerance of a return to the start, as a fraction of the start's radius
\* and speed, and the tolerance of elements converted there and back: a fraction
\* of the semi-major axis, and an absolute bound on eccentricity and inclination
\* (radians).  The numbers of the model carry 15 bits.
ReturnTolerance == FRat(1, 100)
AxisTolerance == FRat(1, 100)
ElementTolerance == FRat(1, 20)

\* The spacecraft started on a circular orbit and has been propagated, with no
\* Moon, over steps that sum to the period.
AroundCircle ==
  /\ probe.op = "orbit"
  /\ probe.start.orbitalElements.eccentricity = FZero
  /\ elapsed = PeriodParts

\* The spacecraft is where, and as fast as, it started, within tolerance.
BackAtStart ==
  /\ FLe(Distance(spacecraft.position, probe.start.position),
         FMul(ReturnTolerance, VecNorm(probe.start.position)))
  /\ FLe(Distance(spacecraft.velocity, probe.start.velocity),
         FMul(ReturnTolerance, VecNorm(probe.start.velocity)))

\* C19: a spacecraft on a circular orbit (e = 0, its position and velocity those
\* of its elements), propagated with no perturbing body over one period, in one
\* step or in several steps that sum to the period, is back at its starting
\* position and velocity within tolerance.
C19_PeriodReturns == AroundCircle => BackAtStart

\* A spacecraft that started away from the node of an inclined circular orbit has
\* gone around it in three steps and is back.
C19_Witness ==
  /\ AroundCircle
  /\ calls = 3
  /\ probe.start.orbitalElements.inclination # FZero
  /\ probe.start.orbitalElements.trueAnomaly # FZero
  /\ spacecraft.orbitalElements.meanAnomaly # probe.start.orbitalElements.meanAnomaly
  /\ BackAtStart

\* The last call converted elements with eccentricity below 0.9 to a state vector
\* and back.
RoundTripped ==
  /\ probe.op = "roundTrip"
  /\ FLt(probe.start.orbitalElements.eccentricity, FRat(9, 10))

\* C20: for bound elements with 0 <= e < 0.9 and mu > 0,
\* cartesianToOrbitalElements(orbitalElementsToCartesian(E, mu), mu) has the
\* semi-major axis, the eccentricity and the inclination of E within tolerance.
C20_RoundTrip ==
  RoundTripped =>
    /\ FLe(FAbs(FSub(probe.result.semiMajorAxis,
                     probe.start.orbitalElements.semiMajorAxis)),
           FMul(AxisTolerance, probe.start.orbitalElements.semiMajorAxis))
    /\ FLe(FAbs(FSub(probe.result.eccentricity,
                     probe.start.orbitalElements.eccentricity)),
           ElementTolerance)
    /\ FLe(FAbs(FSub(probe.result.inclination,
                     probe.start.orbitalElements.inclination)),
           ElementTolerance)

----------------------------------------------------------------------------
(* More properties of the hazard engine, under SpecHazards                  *)

\* The place in the input of the last updateHazards call of output hazard j.
Origin(j) == CHOOSE k \in 1..Len(probe.hazards) : probe.hazards[k].id = hazards[j].id

\* Where a hazard that moved with its velocity over deltaTime is.
Moved(hazard, deltaTime) ==
  [x |-> hazard.position.x + hazard.velocity.x * deltaTime,
   y |-> hazard.position.y + hazard.velocity.y * deltaTime,
   z |-> hazard.position.z + hazard.velocity.z * deltaTime]

\* C21: updateHazards moves only debris: a surviving debris hazard is at
\* position + velocity * elapsed time, a surviving radiation or perturbation
\* hazard is where it was, every field of a surviving hazard other than position
\* and timeRemaining is unchanged, and the survivors are in input order.
C21_OnlyDebrisMoves ==
  probe.op = "updateHazards" =>
    /\ \A j \in 1..Len(hazards) : Same(probe.hazards, hazards[j]) # {}
    /\ \A i, j \in 1..Len(hazards) : i < j => Origin(i) < Origin(j)
    /\ \A j \in 1..Len(hazards) :
         /\ DOMAIN hazards[j] = DOMAIN probe.hazards[Origin(j)]
         /\ \A field \in DOMAIN hazards[j] \ {"position", "timeRemaining"} :
              hazards[j][field] = probe.hazards[Origin(j)][field]
         /\ hazards[j].position =
              IF hazards[j].type = "debris"
              THEN Moved(probe.hazards[Origin(j)], probe.deltaTime)
              ELSE probe.hazards[Origin(j)].position

\* A call that removed a storm placed before hazards that stayed: a debris object
\* that moved, a storm and the perturbation.
C21_Witness ==
  /\ probe.op = "updateHazards"
  /\ Len(hazards) < Len(probe.hazards)
  /\ \E k \in 1..Len(probe.hazards) :
       /\ Same(hazards, probe.hazards[k]) = {}
       /\ \E j \in 1..Len(hazards) : Origin(j) > k
  /\ \E j \in 1..Len(hazards) :
       /\ hazards[j].type = "debris"
       /\ hazards[j].position # probe.hazards[Origin(j)].position
  /\ \E j \in 1..Len(hazards) : hazards[j].type = "radiation"
  /\ \E j \in 1..Len(hazards) : hazards[j].type = "perturbation"

----------------------------------------------------------------------------
(* More properties of the game, under Spec                                  *)

\* What a propagation step is to leave as it is.
KeptByPropagation(before, after) ==
  /\ after.fuel = before.fuel
  /\ after.mass = before.mass
  /\ after.maxFuel = before.maxFuel
  /\ after.maxMass = before.maxMass
  /\ after.orbitalElements.semiMajorAxis = before.orbitalElements.semiMajorAxis
  /\ after.orbitalElements.eccentricity = before.orbitalElements.eccentricity
  /\ after.orbitalElements.inclination = before.orbitalElements.inclination
  /\ after.orbitalElements.longitudeOfAscendingNode =
       before.orbitalElements.longitudeOfAscendingNode
  /\ after.orbitalElements.argumentOfPeriapsis =
       before.orbitalElements.argumentOfPeriapsis

\* C22: fuel, mass, maxFuel, maxMass, semi-major axis, eccentricity, inclination,
\* longitude of ascending node and argument of periapsis of the spacecraft are
\* the same before and after any tick.
C22_TickKeepsTheRest == [][TickStep => KeptByPropagation(spacecraft, spacecraft')]_vars

----------------------------------------------------------------------------
(* More properties of the orbit propagation, under SpecFlight               *)

\* The Cartesian state of the spacecraft's orbital elements.
StateOfElements(sc) == orbitalElementsToCartesian(sc.orbitalElements, initialEarth.mu)
\* The spacecraft with another Cartesian state and everything else as it is.
WithState(sc, cart) == [sc EXCEPT !.position = cart.position, !.velocity = cart.velocity]
\* Cartesian states to give the spacecraft: that of its elements, at rest at the
\* centre, and at the Moon with the seeded velocity.
OtherStates(sc) ==
  {StateOfElements(sc),
   [position |-> ZeroVector, velocity |-> ZeroVector],
   [position |-> initialMoon.position, velocity |-> initialSpacecraft.velocity]}
\* The perturbing body of a call: the Moon, or none.
Perturbers == {initialMoon, NoMoon}

\* The spacecraft's position is not the one of its elements.
OffElements(sc) == sc.position # StateOfElements(sc).position

\* C23: the output of a propagation step does not depend on the position and
\* velocity of its input: a spacecraft with the same orbital elements (and mass
\* and fuel) and another Cartesian state yields the same output, with the Moon
\* and without, so a propagation that follows a perturbed one yields what it
\* yields for the spacecraft put back on its elements.
C23_StateIgnored ==
  \A deltaTime \in PropagationSteps : \A moon \in Perturbers :
    \A cart \in OtherStates(spacecraft) :
      updateOrbitalMotion(WithState(spacecraft, cart), initialEarth, FInt(deltaTime), moon)
        = updateOrbitalMotion(spacecraft, initialEarth, FInt(deltaTime), moon)

\* Two propagation steps in a row with the Moon: the second was given the
\* spacecraft the first returned, which the Moon's pull had put off its elements,
\* and returned a spacecraft off its elements as well.
C23_Witness ==
  /\ probe.op = "updateOrbitalMotion"
  /\ calls = 2
  /\ \E deltaTime \in PropagationSteps :
       probe.spacecraft =
         updateOrbitalMotion(initialSpacecraft, initialEarth, FInt(deltaTime), initialMoon)
  /\ OffElements(probe.spacecraft)
  /\ OffElements(spacecraft)
  /\ \A cart \in OtherStates(probe.spacecraft) :
       spacecraft = updateOrbitalMotion(WithState(probe.spacecraft, cart), initialEarth,
                                        FInt(probe.deltaTime), initialMoon)


====
